---- MODULE Spec2Model ----
(***************************************************************************)
(* Model of the compaction engine of pebble (compaction.go): the scheduler *)
(* (maybeScheduleFlush, maybeScheduleCompactionPicker), the flush and      *)
(* compaction goroutines (flush/flush1, compact/compact1, runCompaction)   *)
(* and the two locks they take (DB.mu and the manifest lock).              *)
(*                                                                         *)
(* Every goroutine is a job j with a program counter comp[j].pc.  DB.mu is *)
(* the variable mu (0 = free, j = held by job j); the manifest lock        *)
(* (versionSet.logLock) is logHolder.  A job moves only while it holds mu  *)
(* or while it is at a point where the code runs with mu released.         *)
(***************************************************************************)
EXTENDS Integers, Sequences, FiniteSets, TLC

\* ------------------------------------------------------------------ bounds
MaxKey == 6
MaxAutoPicks == 1
MaxManual == 2
MaxDownloadTasks == 1
MaxExternalCalls == 1
MaxFaults == 1
MaxRotations == 2
MaxTimers == 1
MaxIngests == 1
MaxScans == 1
MaxOutputs == 1

\* program constants and options
numLevels == 7
MaxConcurrentCompactions == 1
MaxConcurrentDownloads == 1
MemTableSize == 2

NoJob == 0
NoFileNum == 0
NilKey == 0

\* every goroutine the bounds above can create
MaxJobs == MaxConcurrentCompactions + MaxConcurrentDownloads + MaxManual
             + MaxExternalCalls + 3
JobIds == 1..MaxJobs
NumInitFiles == 3
MaxFileNum == NumInitFiles + 9
FileNums == 1..MaxFileNum

RECURSIVE SortedKeys(_)
SortedKeys(S) ==
  IF S = {} THEN <<>>
  ELSE LET m == CHOOSE x \in S : \A y \in S : x <= y
       IN <<m>> \o SortedKeys(S \ {m})
Min(S) == CHOOSE x \in S : \A y \in S : x <= y
Max(S) == CHOOSE x \in S : \A y \in S : y <= x

\* ------------------------------------------------------------------ state
VARIABLES
  closed,            \* d.closed is set
  readOnly,          \* d.opts.ReadOnly
  mu,                \* holder of DB.mu, NoJob if free
  logHolder,         \* holder of the manifest lock, NoJob if free
  compactingCount,   \* d.mu.compact.compactingCount
  downloadingCount,  \* d.mu.compact.downloadingCount
  flushing,          \* d.mu.compact.flushing
  inProgress,        \* d.mu.compact.inProgress
  manual,            \* d.mu.compact.manual: sequence of [id, retries]
  manualDone,        \* values received on each manual compaction's done channel
  downloads,         \* d.mu.compact.downloads: the table of each pending task
  deletionHints,     \* d.mu.compact.deletionHints
  snapshots,         \* d.mu.snapshots, ascending
  files,             \* file metadata by file number
  version,           \* file numbers of the current version
  nextFileNum,       \* versionSet.nextFileNum
  objects,           \* tables present in the object provider
  durable,           \* tables covered by an objProvider.Sync
  obsoleteTables,    \* d.mu.versions.obsoleteTables (file numbers)
  queue,             \* d.mu.mem.queue
  minUnflushedLogNum, \* versionSet.minUnflushedLogNum
  flushedLogNums,    \* log numbers of the flushables whose flushed channel is closed
  comp,              \* goroutines and their compaction
  budget,            \* what the environment may still do
  fatal,             \* Logger.Fatalf was called
  fn                 \* a call of one of the file's functions: arguments and result

vars == <<closed, readOnly, mu, logHolder, compactingCount, downloadingCount,
          flushing, inProgress, manual, manualDone, downloads, deletionHints,
          snapshots, files, version, nextFileNum, objects, durable,
          obsoleteTables, queue, minUnflushedLogNum, flushedLogNums, comp,
          budget, fatal, fn>>

\* ------------------------------------------------------------ file metadata
NoFile == [level |-> 0, smallest |-> NilKey, largest |-> NilKey,
           smallestSeq |-> 0, largestSeq |-> 0, hasPoint |-> FALSE,
           hasRange |-> FALSE, virtual |-> FALSE,
           state |-> "NotCompacting", intraL0 |-> FALSE]

MkFile(l, s, e, sq, lq) ==
  [level |-> l, smallest |-> s, largest |-> e, smallestSeq |-> sq,
   largestSeq |-> lq, hasPoint |-> TRUE, hasRange |-> FALSE, virtual |-> FALSE,
   state |-> "NotCompacting", intraL0 |-> FALSE]

\* the LSM at Open: one L0 table holding a wide tombstone, two L1 tables
InitFiles ==
  [f \in FileNums |->
     CASE f = 1 -> MkFile(0, 1, 6, 8, 9)
       [] f = 2 -> MkFile(1, 2, 3, 1, 2)
       [] f = 3 -> MkFile(1, 4, 5, 3, 4)
       [] OTHER -> NoFile]

IsCompacting(f) == files[f].state = "Compacting"

\* ------------------------------------------------------------------- hints
Hint1 == [hintType |-> "PointKeyOnly", start |-> 2, end |-> 6, tombstoneLevel |-> 0,
          tombstoneSmallestSeqNum |-> 8, tombstoneLargestSeqNum |-> 9,
          fileSmallestSeqNum |-> 1]
Hint2 == [hintType |-> "PointKeyOnly", start |-> 4, end |-> 6, tombstoneLevel |-> 0,
          tombstoneSmallestSeqNum |-> 8, tombstoneLargestSeqNum |-> 9,
          fileSmallestSeqNum |-> 3]

\* a hint over [1, 2), where no table lies
Hint3 == [hintType |-> "PointKeyOnly", start |-> 1, end |-> 2, tombstoneLevel |-> 0,
          tombstoneSmallestSeqNum |-> 8, tombstoneLargestSeqNum |-> 9,
          fileSmallestSeqNum |-> 6]

\* a hint over [1, 4) with an old tombstone
Hint4 == [hintType |-> "PointKeyOnly", start |-> 1, end |-> 4, tombstoneLevel |-> 0,
          tombstoneSmallestSeqNum |-> 3, tombstoneLargestSeqNum |-> 9,
          fileSmallestSeqNum |-> 1]

\* compact.Snapshots.Index: the number of snapshots <= seq, i.e. the index of
\* the first snapshot greater than seq
SnapshotIndex(snaps, seq) == Cardinality({i \in 1..Len(snaps) : snaps[i] <= seq})

\* Version.Overlaps(level, [start, end)): tables of the level meeting the span
Overlaps(fs, v, l, start, end) ==
  {f \in v : fs[f].level = l /\ fs[f].smallest < end /\ fs[f].largest >= start}

\* canDelete without the snapshot-stripe test
canDelete_noStripeTest(h, m, snaps) ==
  IF m.largestSeq >= h.tombstoneSmallestSeqNum \/ m.smallestSeq < h.fileSmallestSeqNum
    THEN FALSE
  ELSE IF h.hintType = "PointKeyOnly" /\ m.hasRange
    THEN FALSE
  ELSE IF h.hintType = "RangeKeyOnly" /\ m.hasPoint
    THEN FALSE
  ELSE h.start <= m.smallest /\ m.largest < h.end

canDelete(h, m, snaps) ==
  IF m.largestSeq >= h.tombstoneSmallestSeqNum \/ m.smallestSeq < h.fileSmallestSeqNum
    THEN FALSE
  ELSE IF SnapshotIndex(snaps, h.tombstoneLargestSeqNum) # SnapshotIndex(snaps, m.smallestSeq)
    THEN FALSE
  ELSE IF h.hintType = "PointKeyOnly" /\ m.hasRange
    THEN FALSE
  ELSE IF h.hintType = "RangeKeyOnly" /\ m.hasPoint
    THEN FALSE
  ELSE h.start <= m.smallest /\ m.largest < h.end

HintResolvable(h, snaps) ==
  SnapshotIndex(snaps, h.tombstoneLargestSeqNum) = SnapshotIndex(snaps, h.fileSmallestSeqNum)

\* checkDeleteCompactionHints, inner loops without the IsCompacting test
HintFiles_noCompactingTest(fs, v, h, snaps) ==
  {m \in v : /\ fs[m].level > h.tombstoneLevel /\ fs[m].level < numLevels
             /\ m \in Overlaps(fs, v, fs[m].level, h.start, h.end)
             /\ canDelete(h, fs[m], snaps)}

\* the tables one resolvable hint selects: at a level below the tombstone,
\* overlapping the hint, not compacting and deletable
HintFiles(fs, v, h, snaps) ==
  {m \in v : /\ fs[m].level > h.tombstoneLevel /\ fs[m].level < numLevels
             /\ m \in Overlaps(fs, v, fs[m].level, h.start, h.end)
             /\ fs[m].state # "Compacting"
             /\ canDelete(h, fs[m], snaps)}

\* checkDeleteCompactionHints that drops a resolvable hint only when it
\* selects a table
checkDeleteCompactionHints_keepFruitless(fs, v, hints, snaps) ==
  LET Unres(h) == ~HintResolvable(h, snaps) \/ HintFiles(fs, v, h, snaps) = {}
      resolved == {i \in 1..Len(hints) : HintResolvable(hints[i], snaps)}
  IN [inputs |-> UNION {HintFiles(fs, v, hints[i], snaps) : i \in resolved},
      unresolvedHints |-> SelectSeq(hints, Unres)]

\* checkDeleteCompactionHints: the selected tables and the unresolved hints
checkDeleteCompactionHints(fs, v, hints, snaps) ==
  LET Unres(h) == ~HintResolvable(h, snaps)
      resolved == {i \in 1..Len(hints) : HintResolvable(hints[i], snaps)}
  IN [inputs |-> UNION {HintFiles(fs, v, hints[i], snaps) : i \in resolved},
      unresolvedHints |-> SelectSeq(hints, Unres)]

\* ---------------------------------------------------------------- elision
\* merge of spans sorted by Start: overlapping or abutting spans become one
RECURSIVE MergeSpans(_, _)
MergeSpans(spans, acc) ==
  IF spans = <<>> THEN acc
  ELSE LET s == Head(spans)
           k == Len(acc)
       IN IF k > 0 /\ acc[k].End >= s.Start
            THEN MergeSpans(Tail(spans),
                            [acc EXCEPT ![k].End = IF s.End > @ THEN s.End ELSE @])
            ELSE MergeSpans(Tail(spans), Append(acc, s))

\* Version.CalculateInuseKeyRanges(level, maxLevel, smallest, largest): the
\* sorted, merged user-key spans of the tables of levels level..maxLevel that
\* overlap [smallest, largest]
CalculateInuseKeyRanges(fs, v, level, maxLevel, smallest, largest) ==
  LET in     == {f \in v : /\ fs[f].level >= level /\ fs[f].level <= maxLevel
                           /\ fs[f].largest >= smallest /\ fs[f].smallest <= largest}
      starts == SortedKeys({fs[f].smallest : f \in in})
      span(i) == [Start |-> starts[i],
                  End |-> Max({fs[f].largest : f \in {g \in in : fs[g].smallest = starts[i]}})]
  IN MergeSpans([i \in 1..Len(starts) |-> span(i)], <<>>)

\* compaction.setupInuseKeyRanges
setupInuseKeyRanges(fs, v, outputLevel, smallest, largest) ==
  LET level  == IF outputLevel = 0 THEN 0 ELSE outputLevel + 1
      ranges == CalculateInuseKeyRanges(fs, v, level, numLevels - 1, smallest, largest)
  IN [inuseKeyRanges |-> ranges,
      inuseEntireRange |-> /\ Len(ranges) > 0
                           /\ ranges[1].Start <= smallest
                           /\ ranges[1].End >= largest]

\* the cursor loop stepping over the range the key was compared with
RECURSIVE elideTombstoneFrom_skipRange(_, _, _)
elideTombstoneFrom_skipRange(inuseKeyRanges, index, key) ==
  IF index >= Len(inuseKeyRanges) THEN [elide |-> TRUE, index |-> index]
  ELSE LET r == inuseKeyRanges[index + 1]
       IN IF key <= r.End
            THEN [elide |-> ~(key >= r.Start), index |-> index + 1]
            ELSE elideTombstoneFrom_skipRange(inuseKeyRanges, index + 1, key)

\* compaction.elideTombstone with the cursor at index (0-based): the result
\* and the cursor after the call
RECURSIVE elideTombstoneFrom(_, _, _)
elideTombstoneFrom(inuseKeyRanges, index, key) ==
  IF index >= Len(inuseKeyRanges) THEN [elide |-> TRUE, index |-> index]
  ELSE LET r == inuseKeyRanges[index + 1]
       IN IF key <= r.End
            THEN [elide |-> ~(key >= r.Start), index |-> index]
            ELSE elideTombstoneFrom(inuseKeyRanges, index + 1, key)

elideTombstone_ignoreFlushing(inuseEntireRange, flushingLen, inuseKeyRanges, index, key) ==
  IF inuseEntireRange
    THEN [elide |-> FALSE, index |-> index]
    ELSE elideTombstoneFrom(inuseKeyRanges, index, key)
elideTombstone(inuseEntireRange, flushingLen, inuseKeyRanges, index, key) ==
  IF inuseEntireRange \/ flushingLen # 0
    THEN [elide |-> FALSE, index |-> index]
    ELSE elideTombstoneFrom(inuseKeyRanges, index, key)

\* sort.Search(n, f) for the two tests of elideRangeTombstone (0-based)
SearchEnd(inuseKeyRanges, start) ==
  Min({i \in 0..Len(inuseKeyRanges) - 1 : inuseKeyRanges[i + 1].End >= start}
      \cup {Len(inuseKeyRanges)})
SearchStart_endExclusive(inuseKeyRanges, end) ==
  Min({i \in 0..Len(inuseKeyRanges) - 1 : inuseKeyRanges[i + 1].Start >= end}
      \cup {Len(inuseKeyRanges)})
SearchStart(inuseKeyRanges, end) ==
  Min({i \in 0..Len(inuseKeyRanges) - 1 : inuseKeyRanges[i + 1].Start > end}
      \cup {Len(inuseKeyRanges)})

\* compaction.elideRangeTombstone
elideRangeTombstone_ignoreFlushing(disableSpanElision, flushingLen, inuseKeyRanges, start, end) ==
  IF disableSpanElision THEN FALSE
  ELSE SearchEnd(inuseKeyRanges, start) >= SearchStart(inuseKeyRanges, end)
elideRangeTombstone(disableSpanElision, flushingLen, inuseKeyRanges, start, end) ==
  IF disableSpanElision \/ flushingLen # 0 THEN FALSE
  ELSE SearchEnd(inuseKeyRanges, start) >= SearchStart(inuseKeyRanges, end)

\* compaction.elideRangeKey
elideRangeKey(disableSpanElision, flushingLen, inuseKeyRanges, start, end) ==
  elideRangeTombstone(disableSpanElision, flushingLen, inuseKeyRanges, start, end)

\* compaction.allowZeroSeqNum
allowZeroSeqNum(disableSpanElision, flushingLen, inuseKeyRanges, smallest, largest) ==
  elideRangeTombstone(disableSpanElision, flushingLen, inuseKeyRanges, smallest, largest)

\* ------------------------------------------------------------- range keys
\* a range key of a span: [seq, kind, suffix]; RangeKeyDelete has no suffix
NoSuffix == 0

\* InternalKeyKind order within one sequence number: Set > Unset > Delete
KindRank(kind) ==
  CASE kind = "RangeKeySet" -> 3
    [] kind = "RangeKeyUnset" -> 2
    [] kind = "RangeKeyDelete" -> 1

\* the trailer of a key: the sequence number above the kind
Trailer(k) == k.seq * 4 + KindRank(k.kind)

\* keyspan.SortKeysByTrailer: descending trailers
RECURSIVE SortKeysByTrailer(_)
SortKeysByTrailer(S) ==
  IF S = {} THEN <<>>
  ELSE LET k == CHOOSE x \in S : \A y \in S : Trailer(y) <= Trailer(x)
       IN <<k>> \o SortKeysByTrailer(S \ {k})

\* rangekey.Coalesce(keys): the keys up to the first RangeKeyDelete, of which
\* the first at each suffix survives, and that RangeKeyDelete; by trailer
Coalesce(keys) ==
  LET dels      == {i \in 1..Len(keys) : keys[i].kind = "RangeKeyDelete"}
      deleteIdx == IF dels = {} THEN 0 ELSE Min(dels)
      before    == IF deleteIdx = 0 THEN 1..Len(keys) ELSE 1..(deleteIdx - 1)
      first     == {i \in before : \A j \in before : j < i => keys[j].suffix # keys[i].suffix}
  IN SortKeysByTrailer({keys[i] : i \in first}
                       \cup (IF deleteIdx = 0 THEN {} ELSE {keys[deleteIdx]}))

\* base.Visible(seqNum, snapshot, InternalKeySeqNumMax)
Visible(seqNum, snapshot) == seqNum < snapshot

\* elideInLastStripe of rangeKeyCompactionTransform; elide is the result of
\* elideRangeKey(s.Start, s.End)
elideInLastStripe_ignoreElideRangeKey(elide, keys) ==
  LET Kept(k) == ~(k.kind \in {"RangeKeyUnset", "RangeKeyDelete"})
  IN SelectSeq(keys, Kept)
elideInLastStripe(elide, keys) ==
  LET Kept(k) == ~(elide /\ k.kind \in {"RangeKeyUnset", "RangeKeyDelete"})
  IN SelectSeq(keys, Kept)

\* dst.Keys = append(dst.Keys, keysDst...)
AppendStripe_inFront(dstKeys, keysDst) == keysDst \o dstKeys
AppendStripe(dstKeys, keysDst) == dstKeys \o keysDst

\* the loop of rangeKeyCompactionTransform over the snapshots, from the
\* newest (i = Len(snapshots)) down, with j keys of the span consumed
RECURSIVE TransformStripes(_, _, _, _, _, _)
TransformStripes(snaps, elide, keys, i, j, dstKeys) ==
  IF i >= 1
    THEN LET n  == Cardinality({x \in (j + 1)..Len(keys) :
                                  \A y \in (j + 1)..x : ~Visible(keys[y].seq, snaps[i])})
             j2 == j + n
             co == Coalesce(SubSeq(keys, j + 1, j2))
             keysDst == IF j2 = Len(keys) THEN elideInLastStripe(elide, co) ELSE co
         IN TransformStripes(snaps, elide, keys, i - 1, j2,
                             IF j2 > j THEN AppendStripe(dstKeys, keysDst) ELSE dstKeys)
    ELSE IF j < Len(keys)
           THEN AppendStripe(dstKeys,
                             elideInLastStripe(elide, Coalesce(SubSeq(keys, j + 1, Len(keys)))))
           ELSE dstKeys

\* rangeKeyCompactionTransform applied to the span s
rangeKeyCompactionTransform_oneStripe(snaps, elide, s) ==
  [Start |-> s.Start, End |-> s.End,
   Keys |-> TransformStripes(<<>>, elide, s.Keys, 0, 0, <<>>)]
rangeKeyCompactionTransform(snaps, elide, s) ==
  [Start |-> s.Start, End |-> s.End,
   Keys |-> TransformStripes(snaps, elide, s.Keys, Len(snaps), 0, <<>>)]

\* ------------------------------------------------------------- compactions
NullComp ==
  [pc |-> "none", kind |-> "none", isDownload |-> FALSE, manual |-> 0,
   inputs |-> {}, outLevel |-> 0, smallest |-> NilKey, largest |-> NilKey,
   cancel |-> FALSE, checked |-> FALSE, err |-> "nil", runErr |-> "nil", pending |-> {},
   created |-> {}, tw |-> NoFileNum, newFiles |-> {}, n |-> 0,
   deleted |-> {}, allowedZeroSeqNum |-> FALSE, versionEditApplied |-> FALSE,
   minUnflushedLogNum |-> 0, infoErr |-> "nil", flushed |-> {},
   inuseKeyRanges |-> <<>>, inuseEntireRange |-> FALSE]

GenericKinds == {"Default", "Flush", "Rewrite"}

\* KeyRange.OverlapsInternalKeyRange(cmp, smallest, largest) for the excise
\* span [start, end)
OverlapsInternalKeyRange(start, end, smallest, largest) ==
  start <= largest /\ end > smallest

\* remote.ShouldCreateShared(opts.Experimental.CreateOnShared, level) with
\* CreateOnShared = lower levels only
SharedFromLevel == 2
ShouldCreateShared(level) == level >= SharedFromLevel

\* compaction.hasExtraLevelData: extraLevels is the list of the file sets of
\* the intermediate levels of a multi-level compaction
hasExtraLevelData(extraLevels) ==
  IF Len(extraLevels) = 0 THEN FALSE
  ELSE IF extraLevels[1] = {} THEN FALSE
  ELSE TRUE

\* the kind newCompaction gives a picked compaction
newCompactionKind_ignoreGrandparents(pcKind, outputEmpty, extraLevelData, startLen, grandparentsSize, maxOverlapBytes, isRemote, createShared, virtual) ==
  IF pcKind = "Default" /\ outputEmpty /\ ~extraLevelData /\ startLen = 1
    THEN IF ~isRemote /\ createShared
           THEN (IF ~virtual THEN "Copy" ELSE pcKind)
           ELSE "Move"
    ELSE pcKind
newCompactionKind(pcKind, outputEmpty, extraLevelData, startLen, grandparentsSize, maxOverlapBytes, isRemote, createShared, virtual) ==
  IF /\ pcKind = "Default" /\ outputEmpty /\ ~extraLevelData
     /\ startLen = 1 /\ grandparentsSize <= maxOverlapBytes
    THEN IF ~isRemote /\ createShared
           THEN (IF ~virtual THEN "Copy" ELSE pcKind)
           ELSE "Move"
    ELSE pcKind

\* the picker's contract (pickAuto, pickManualCompaction): one table of the
\* current version that is not being compacted, at a level above the last,
\* with every table of the output level that overlaps it, none of which is
\* being compacted
OutputLevelOf(l) == l + 1
PickerChoices(fs, v) ==
  {[start |-> f, out |-> Overlaps(fs, v, OutputLevelOf(fs[f].level),
                                  fs[f].smallest, fs[f].largest + 1)] :
     f \in {g \in v : /\ fs[g].state = "NotCompacting"
                      /\ fs[g].level < numLevels - 1
                      /\ \A o \in Overlaps(fs, v, OutputLevelOf(fs[g].level),
                                           fs[g].smallest, fs[g].largest + 1) :
                           fs[o].state = "NotCompacting"}}

\* newCompaction(pc, ...)
newCompaction(fs, v, pick, isDl, man) ==
  LET ins  == {pick.start} \cup pick.out
      sm   == Min({fs[f].smallest : f \in ins})
      lg   == Max({fs[f].largest : f \in ins})
      outL == OutputLevelOf(fs[pick.start].level)
      gp   == IF outL + 1 < numLevels THEN Overlaps(fs, v, outL + 1, sm, lg + 1) ELSE {}
      k    == newCompactionKind("Default", pick.out = {}, hasExtraLevelData(<<>>), 1,
                                Cardinality(gp), 1, FALSE,
                                ShouldCreateShared(outL), fs[pick.start].virtual)
      inuse == setupInuseKeyRanges(fs, v, outL, sm, lg)
  IN [NullComp EXCEPT !.pc = "c_start", !.kind = k, !.isDownload = isDl,
                      !.manual = man, !.inputs = ins, !.outLevel = outL,
                      !.smallest = sm, !.largest = lg,
                      !.inuseKeyRanges = inuse.inuseKeyRanges,
                      !.inuseEntireRange = inuse.inuseEntireRange,
                      !.allowedZeroSeqNum = FALSE]

\* newDeleteOnlyCompaction(opts, cur, inputs, ...)
newDeleteOnlyCompaction(fs, ins) ==
  [NullComp EXCEPT !.pc = "c_start", !.kind = "DeleteOnly", !.inputs = ins,
                   !.outLevel = numLevels - 1,
                   !.smallest = Min({fs[f].smallest : f \in ins}),
                   !.largest = Max({fs[f].largest : f \in ins})]

\* addInProgressCompaction: the metadata after the inputs are marked.  A table
\* that is already compacting is fatal (AlreadyCompacting).
AlreadyCompacting(fs, c) == \E f \in c.inputs : fs[f].state = "Compacting"
MarkCompacting(fs, c) ==
  [f \in FileNums |->
     IF f \in c.inputs
       THEN [fs[f] EXCEPT !.state = "Compacting",
                          !.intraL0 = (c.kind # "DeleteOnly" /\ c.kind # "Flush"
                                       /\ c.kind # "IngestedFlushable"
                                       /\ fs[f].level = 0 /\ c.outLevel = 0)]
       ELSE fs[f]]

\* clearCompactingState: the metadata after the markers are removed
ClearCompacting(fs, c, rollback) ==
  [f \in FileNums |->
     IF f \in c.inputs
       THEN [fs[f] EXCEPT
               !.state = IF ~rollback /\ c.kind # "Move" THEN "Compacted"
                         ELSE "NotCompacting",
               !.intraL0 = FALSE]
       ELSE fs[f]]
NotBeingCompacted(fs, c) == \E f \in c.inputs : fs[f].state # "Compacting"

\* ------------------------------------------------------------ memtable queue
MkMem(ln, b) ==
  [kind |-> "mem", ready |-> FALSE, flushForced |-> FALSE, logNum |-> ln,
   bytes |-> b, file |-> NoFileNum, exciseStart |-> NilKey, exciseEnd |-> NilKey,
   flushed |-> FALSE]
MkIngest(ln, f, es, ee) ==
  [kind |-> "ingest", ready |-> TRUE, flushForced |-> TRUE, logNum |-> ln,
   bytes |-> 0, file |-> f, exciseStart |-> es, exciseEnd |-> ee,
   flushed |-> FALSE]

exciseSpanValid(e) == e.exciseStart # NilKey \/ e.exciseEnd # NilKey

\* passedFlushThreshold
ReadyPrefix(q) ==
  LET F[i \in 0..Len(q)] ==
        IF i = 0 THEN 0
        ELSE IF F[i-1] = i - 1 /\ i < Len(q) /\ q[i].ready THEN i ELSE F[i-1]
  IN F[Len(q)]
SumBytes(q, n) ==
  LET F[i \in 0..n] ==
        IF i = 0 THEN 0
        ELSE F[i-1] + (IF q[i].flushForced THEN MemTableSize ELSE q[i].bytes)
  IN F[n]
passedFlushThreshold(q) ==
  LET n == ReadyPrefix(q)
  IN IF n = 0 THEN FALSE ELSE SumBytes(q, n) >= MemTableSize \div 2

\* -------------------------------------------------------------------- Init
\* the environment is one of these workloads: what callers, writers, the
\* picker and the storage may do during the run
NoBudget ==
  [ext |-> 0, manual |-> 0, tasks |-> 0, downloads |-> 0, auto |-> 0, faults |-> 0,
   rot |-> 0, timer |-> 0, ingest |-> 0, close |-> 0, scan |-> 0]
Workloads ==
  { \* manual compactions and a download task
    [NoBudget EXCEPT !.manual = MaxManual, !.tasks = MaxDownloadTasks,
                     !.downloads = MaxDownloadTasks + 1],
    \* compactions and downloads that meet a storage error
    [NoBudget EXCEPT !.ext = MaxExternalCalls, !.auto = MaxAutoPicks,
                     !.tasks = MaxDownloadTasks, !.downloads = MaxDownloadTasks,
                     !.faults = MaxFaults, !.scan = MaxScans],
    \* an ingestion with an excise while a compaction runs
    [NoBudget EXCEPT !.ext = MaxExternalCalls, !.auto = MaxAutoPicks,
                     !.ingest = MaxIngests, !.scan = MaxScans],
    \* writes, delayed flushes, storage errors and Close
    [NoBudget EXCEPT !.rot = MaxRotations, !.timer = MaxTimers,
                     !.faults = MaxFaults, !.close = 1],
    \* Close while compactions are scheduled
    [NoBudget EXCEPT !.ext = MaxExternalCalls + 1, !.auto = MaxAutoPicks,
                     !.rot = MaxRotations - 1, !.close = 1],
    \* a manual compaction that meets an ingestion with an excise or a
    \* storage error
    [NoBudget EXCEPT !.manual = 1, !.ingest = MaxIngests, !.faults = 1] }

\* the DB after Open
InitDB ==
  /\ closed = FALSE
  /\ mu = NoJob
  /\ logHolder = NoJob
  /\ compactingCount = 0
  /\ downloadingCount = 0
  /\ flushing = FALSE
  /\ inProgress = {}
  /\ manual = <<>>
  /\ manualDone = [m \in 1..MaxManual |-> <<>>]
  /\ downloads = <<>>
  /\ deletionHints = <<Hint2, Hint1>>
  /\ snapshots = <<5>>
  /\ files = InitFiles
  /\ version = 1..NumInitFiles
  /\ nextFileNum = NumInitFiles + 1
  /\ objects = 1..NumInitFiles
  /\ durable = 1..NumInitFiles
  /\ obsoleteTables = <<>>
  /\ queue = <<MkMem(1, 0)>>
  /\ minUnflushedLogNum = 1
  /\ flushedLogNums = {}
  /\ comp = [j \in JobIds |-> NullComp]
  /\ fatal = FALSE

NoCall == [op |-> "none"]

\* the DB after Open in read-only mode when the WAL held an ingestion: the
\* ingested table is a flushable of the queue and in no version; the object
\* provider also lists a table that a crash left behind
ReplayedTable == NumInitFiles + 1
OrphanTable == NumInitFiles + 2
InitReplayed ==
  /\ closed = FALSE
  /\ mu = NoJob
  /\ logHolder = NoJob
  /\ compactingCount = 0
  /\ downloadingCount = 0
  /\ flushing = FALSE
  /\ inProgress = {}
  /\ manual = <<>>
  /\ manualDone = [m \in 1..MaxManual |-> <<>>]
  /\ downloads = <<>>
  /\ deletionHints = <<>>
  /\ snapshots = <<>>
  /\ files = [InitFiles EXCEPT ![ReplayedTable] = MkFile(0, 4, 5, 10, 10)]
  /\ version = 1..NumInitFiles
  /\ nextFileNum = OrphanTable + 1
  /\ objects = 1..OrphanTable
  /\ durable = 1..OrphanTable
  /\ obsoleteTables = <<>>
  /\ queue = <<MkIngest(1, ReplayedTable, NilKey, NilKey), MkMem(2, 0)>>
  /\ minUnflushedLogNum = 1
  /\ flushedLogNums = {}
  /\ comp = [j \in JobIds |-> NullComp]
  /\ fatal = FALSE
ReplayWorkload == [NoBudget EXCEPT !.ext = MaxExternalCalls, !.scan = MaxScans]

Init ==
  /\ \/ InitDB /\ readOnly \in BOOLEAN /\ budget \in Workloads
     \/ InitReplayed /\ readOnly = TRUE /\ budget = ReplayWorkload
  /\ fn = NoCall

\* --------------------------------------------------------------- goroutines
Holds(j) == ~fatal /\ mu = j
\* versionSet.logLock() with the manifest lock taken: the goroutine waits on
\* a condition variable of DB.mu, so DB.mu is free while it waits
logLockWait_holdingMu(j) == j
logLockWait(j) == NoJob
\* the id a new goroutine gets
NewJob == Min({k \in JobIds : comp[k].pc = "none"})
maxCompactions == MaxConcurrentCompactions
maxDownloads == MaxConcurrentDownloads

\* addInProgressCompaction: c joins d.mu.compact.inProgress
addInProgressCompaction_skipped(running, k) == running
addInProgressCompaction(running, k) == running \cup {k}

\* the scheduler's test for a free slot, off by one
SlotFree_offByOne(count, max) == count <= max
\* the scheduler's test for a free compaction or download slot
SlotFree(count, max) == count < max

RetryHead(m) == IF Len(m) > 0 THEN [m EXCEPT ![1].retries = @ + 1] ELSE m

unchangedStorage == UNCHANGED <<nextFileNum, objects, durable, obsoleteTables>>
unchangedLsm == UNCHANGED <<files, version>>
unchangedFlags == UNCHANGED <<closed, readOnly, fatal>>

\* maybeScheduleCompactionPicker up to logLock(): the closed / read-only test,
\* the test for a free slot, then the manifest lock, for which the goroutine
\* waits with DB.mu released when another goroutine holds it
SchedStart(j) ==
  /\ Holds(j) /\ comp[j].pc = "s_start"
  /\ IF closed \/ readOnly
       THEN /\ comp' = [comp EXCEPT ![j] = NullComp]
            /\ mu' = NoJob
            /\ UNCHANGED <<manual, logHolder>>
     ELSE IF /\ compactingCount >= maxCompactions
             /\ (Len(downloads) = 0 \/ downloadingCount >= maxDownloads)
       THEN /\ manual' = RetryHead(manual)
            /\ comp' = [comp EXCEPT ![j] = NullComp]
            /\ mu' = NoJob
            /\ UNCHANGED logHolder
     ELSE IF logHolder = NoJob
       THEN /\ logHolder' = j
            /\ comp' = [comp EXCEPT ![j].pc = "s_locked"]
            /\ UNCHANGED <<manual, mu>>
     ELSE /\ mu' = logLockWait(j)
          /\ comp' = [comp EXCEPT ![j].pc = "s_logwait"]
          /\ UNCHANGED <<manual, logHolder>>
  /\ UNCHANGED <<compactingCount, downloadingCount, flushing, inProgress,
                 manualDone, downloads, deletionHints, snapshots, queue, fn, minUnflushedLogNum, flushedLogNums,
                 budget>>
  /\ unchangedStorage /\ unchangedLsm /\ unchangedFlags

\* logLock() returns in maybeScheduleCompactionPicker
SchedLogLocked(j) ==
  /\ ~fatal /\ mu = NoJob /\ logHolder = NoJob /\ comp[j].pc = "s_logwait"
  /\ mu' = j /\ logHolder' = j
  /\ comp' = [comp EXCEPT ![j].pc = "s_locked"]
  /\ UNCHANGED <<compactingCount, downloadingCount, flushing, inProgress, manual,
                 manualDone, downloads, deletionHints, snapshots, queue, fn, minUnflushedLogNum, flushedLogNums,
                 budget>>
  /\ unchangedStorage /\ unchangedLsm /\ unchangedFlags

\* the class of work a pass tries first: with a free compaction slot the
\* delete-only compactions, else the downloads
firstClass_manualFirst(free) == IF free THEN "s_manual" ELSE "s_downloads"
firstClass(free) == IF free THEN "s_delonly" ELSE "s_downloads"

\* the second closed test, under the manifest lock
SchedRecheckClosed(j) ==
  /\ Holds(j) /\ comp[j].pc = "s_locked"
  /\ IF closed
       THEN /\ comp' = [comp EXCEPT ![j] = NullComp]
            /\ mu' = NoJob /\ logHolder' = NoJob
       ELSE /\ comp' = [comp EXCEPT ![j].pc =
                          firstClass(SlotFree(compactingCount, maxCompactions))]
            /\ UNCHANGED <<mu, logHolder>>
  /\ UNCHANGED <<compactingCount, downloadingCount, flushing, inProgress, manual,
                 manualDone, downloads, deletionHints, snapshots, queue, fn, minUnflushedLogNum, flushedLogNums,
                 budget>>
  /\ unchangedStorage /\ unchangedLsm /\ unchangedFlags

\* tryScheduleDeleteOnlyCompaction, when there are deletion hints
SchedDeleteOnly(j) ==
  /\ Holds(j) /\ comp[j].pc = "s_delonly"
  /\ LET r == checkDeleteCompactionHints(files, version, deletionHints, snapshots)
         c == newDeleteOnlyCompaction(files, r.inputs)
     IN IF Len(deletionHints) > 0
          THEN /\ deletionHints' = r.unresolvedHints
               /\ IF r.inputs # {}
                    THEN /\ compactingCount' = compactingCount + 1
                         /\ inProgress' = addInProgressCompaction(inProgress, NewJob)
                         /\ fatal' = AlreadyCompacting(files, c)
                         /\ files' = MarkCompacting(files, c)
                         /\ comp' = [comp EXCEPT ![j].pc = "s_manual", ![NewJob] = c]
                    ELSE /\ comp' = [comp EXCEPT ![j].pc = "s_manual"]
                         /\ UNCHANGED <<compactingCount, inProgress, fatal, files>>
          ELSE /\ comp' = [comp EXCEPT ![j].pc = "s_manual"]
               /\ UNCHANGED <<deletionHints, compactingCount, inProgress, fatal,
                              files>>
  /\ UNCHANGED <<closed, readOnly, mu, logHolder, downloadingCount, flushing,
                 manual, manualDone, downloads, snapshots, version, queue, fn, minUnflushedLogNum, flushedLogNums, budget>>
  /\ unchangedStorage

\* manual.done <- nil
signalNoOp_skipped(done) == done
signalNoOp(done) == Append(done, "nil")

\* one iteration of the manual-compaction loop: tryScheduleManualCompaction on
\* the head, which is a no-op, must be retried later, or is launched
SchedManual(j) ==
  /\ Holds(j) /\ comp[j].pc = "s_manual"
  /\ IF Len(manual) > 0 /\ SlotFree(compactingCount, maxCompactions)
       THEN \/ \* pc == nil && !retryLater
               /\ manualDone' = [manualDone EXCEPT ![manual[1].id] = signalNoOp(@)]
               /\ manual' = Tail(manual)
               /\ UNCHANGED <<comp, compactingCount, inProgress, fatal, files>>
            \/ \* pc == nil && retryLater
               /\ manual' = RetryHead(manual)
               /\ comp' = [comp EXCEPT ![j].pc = "s_auto"]
               /\ UNCHANGED <<manualDone, compactingCount, inProgress, fatal,
                              files>>
            \/ \E pick \in PickerChoices(files, version) :
                 LET c == newCompaction(files, version, pick, FALSE, manual[1].id)
                 IN /\ compactingCount' = compactingCount + 1
                    /\ inProgress' = addInProgressCompaction(inProgress, NewJob)
                    /\ fatal' = AlreadyCompacting(files, c)
                    /\ files' = MarkCompacting(files, c)
                    /\ comp' = [comp EXCEPT ![NewJob] = c]
                    /\ manual' = Tail(manual)
                    /\ UNCHANGED manualDone
       ELSE /\ comp' = [comp EXCEPT ![j].pc = "s_auto"]
            /\ UNCHANGED <<manual, manualDone, compactingCount, inProgress, fatal,
                           files>>
  /\ UNCHANGED <<closed, readOnly, mu, logHolder, downloadingCount, flushing,
                 downloads, deletionHints, snapshots, version, queue, fn, minUnflushedLogNum, flushedLogNums, budget>>
  /\ unchangedStorage

\* one iteration of the automatic-compaction loop: tryScheduleAutoCompaction
SchedAuto(j) ==
  /\ Holds(j) /\ comp[j].pc = "s_auto"
  /\ \/ /\ SlotFree(compactingCount, maxCompactions) /\ budget.auto > 0
        /\ \E pick \in PickerChoices(files, version) :
             LET c == newCompaction(files, version, pick, FALSE, 0)
             IN /\ compactingCount' = compactingCount + 1
                /\ inProgress' = addInProgressCompaction(inProgress, NewJob)
                /\ fatal' = AlreadyCompacting(files, c)
                /\ files' = MarkCompacting(files, c)
                /\ comp' = [comp EXCEPT ![NewJob] = c]
                /\ budget' = [budget EXCEPT !.auto = @ - 1]
     \/ \* no free slot, or the picker returns nil
        /\ comp' = [comp EXCEPT ![j].pc = "s_downloads"]
        /\ UNCHANGED <<compactingCount, inProgress, fatal, files, budget>>
  /\ UNCHANGED <<closed, readOnly, mu, logHolder, downloadingCount, flushing,
                 manual, manualDone, downloads, deletionHints, snapshots, version,
                 queue, fn, minUnflushedLogNum, flushedLogNums>>
  /\ unchangedStorage

\* the tables download tasks may name
DownloadFiles == {1, 3}

\* the download compaction tryLaunchDownloadCompaction starts for a table that
\* is not being compacted: a rewrite of the table in its own level
newDownloadCompaction(fs, v, f) ==
  LET inuse == setupInuseKeyRanges(fs, v, fs[f].level, fs[f].smallest, fs[f].largest)
  IN [NullComp EXCEPT !.pc = "c_start", !.kind = "Rewrite", !.isDownload = TRUE,
                      !.inputs = {f}, !.outLevel = fs[f].level,
                      !.smallest = fs[f].smallest, !.largest = fs[f].largest,
                      !.inuseKeyRanges = inuse.inuseKeyRanges,
                      !.inuseEntireRange = inuse.inuseEntireRange]

RemoveAt(s, i) == SubSeq(s, 1, i - 1) \o SubSeq(s, i + 1, Len(s))

\* tryScheduleDownloadCompaction from task i on: a task whose table left the
\* version is completed and removed, a task whose table is being compacted
\* (or that the environment no longer lets start) launches nothing, the first
\* other task launches a compaction
RECURSIVE tryScheduleDownloadCompaction(_, _, _, _, _)
tryScheduleDownloadCompaction(ds, i, fs, v, canLaunch) ==
  IF i > Len(ds) THEN [tasks |-> ds, launch |-> NoFileNum]
  ELSE IF ds[i] \notin v
    THEN tryScheduleDownloadCompaction(RemoveAt(ds, i), i, fs, v, canLaunch)
  ELSE IF fs[ds[i]].state = "NotCompacting" /\ canLaunch
    THEN [tasks |-> ds, launch |-> ds[i]]
  ELSE tryScheduleDownloadCompaction(ds, i + 1, fs, v, canLaunch)

\* one iteration of the download loop, and after the last one logUnlock and
\* the return of maybeScheduleCompactionPicker, which ends the goroutine
SchedDownloads(j) ==
  /\ Holds(j) /\ comp[j].pc = "s_downloads"
  /\ LET r == tryScheduleDownloadCompaction(downloads, 1, files, version,
                                            budget.downloads > 0)
         c == newDownloadCompaction(files, version, r.launch)
     IN IF Len(downloads) > 0 /\ SlotFree(downloadingCount, maxDownloads)
          THEN /\ downloads' = r.tasks
               /\ IF r.launch # NoFileNum
                    THEN /\ downloadingCount' = downloadingCount + 1
                         /\ inProgress' = addInProgressCompaction(inProgress, NewJob)
                         /\ fatal' = AlreadyCompacting(files, c)
                         /\ files' = MarkCompacting(files, c)
                         /\ comp' = [comp EXCEPT ![NewJob] = c]
                         /\ budget' = [budget EXCEPT !.downloads = @ - 1]
                         /\ UNCHANGED <<mu, logHolder>>
                    ELSE /\ comp' = [comp EXCEPT ![j] = NullComp]
                         /\ mu' = NoJob /\ logHolder' = NoJob
                         /\ UNCHANGED <<downloadingCount, inProgress, fatal,
                                        files, budget>>
          ELSE /\ comp' = [comp EXCEPT ![j] = NullComp]
               /\ mu' = NoJob /\ logHolder' = NoJob
               /\ UNCHANGED <<downloads, downloadingCount, inProgress, fatal,
                              files, budget>>
  /\ UNCHANGED <<closed, readOnly, compactingCount, flushing, manual, manualDone,
                 deletionHints, snapshots, version, queue, fn, minUnflushedLogNum, flushedLogNums>>
  /\ unchangedStorage

\* ------------------------------------------------------ compaction goroutine
Fail(c, e) == [c EXCEPT !.err = e, !.runErr = e]

\* compact: d.mu.Lock, then compact1 up to the point where runCompaction
\* releases DB.mu or returns
CompactBegin(j) ==
  /\ ~fatal /\ mu = NoJob /\ comp[j].pc = "c_start"
  /\ LET c == comp[j] IN
     \/ /\ c.kind = "DeleteOnly"
        /\ comp' = [comp EXCEPT ![j].pc = "c_apply"]
        /\ mu' = j
        /\ UNCHANGED <<budget, nextFileNum>>
     \/ /\ c.kind \in {"Move", "Copy"} \cup GenericKinds
        /\ c.cancel
        /\ comp' = [comp EXCEPT ![j] = [Fail(c, "ErrCancelledCompaction") EXCEPT !.pc = "c_post"]]
        /\ mu' = j
        /\ UNCHANGED <<budget, nextFileNum>>
     \/ \* objProvider.Lookup fails
        /\ c.kind \in {"Move", "Copy"} /\ ~c.cancel /\ budget.faults > 0
        /\ budget' = [budget EXCEPT !.faults = @ - 1]
        /\ comp' = [comp EXCEPT ![j] = [Fail(c, "io") EXCEPT !.pc = "c_post"]]
        /\ mu' = j
        /\ UNCHANGED nextFileNum
     \/ /\ c.kind = "Move" /\ ~c.cancel
        /\ comp' = [comp EXCEPT ![j].pc = "c_apply", ![j].newFiles = c.inputs]
        /\ mu' = j
        /\ UNCHANGED <<budget, nextFileNum>>
     \/ \* runCopyCompaction: a new file number, then DB.mu is released
        /\ c.kind = "Copy" /\ ~c.cancel /\ nextFileNum <= MaxFileNum
        /\ comp' = [comp EXCEPT ![j].pc = "c_copy", ![j].tw = nextFileNum]
        /\ nextFileNum' = nextFileNum + 1
        /\ mu' = NoJob
        /\ UNCHANGED budget
     \/ /\ c.kind \in GenericKinds /\ ~c.cancel
        /\ comp' = [comp EXCEPT ![j].pc = "c_io",
                               ![j].allowedZeroSeqNum =
                                  allowZeroSeqNum(FALSE, c.n, c.inuseKeyRanges,
                                                  c.smallest, c.largest)]
        /\ mu' = NoJob
        /\ UNCHANGED <<budget, nextFileNum>>
  /\ UNCHANGED <<closed, readOnly, fatal, logHolder, compactingCount,
                 downloadingCount, flushing, inProgress, manual, manualDone,
                 downloads, deletionHints, snapshots, files, version, objects,
                 durable, obsoleteTables, queue, fn, minUnflushedLogNum, flushedLogNums>>

\* the provider after runCompaction's last step, without the Sync
SyncedTables_noSync(dur, objs) == dur
\* objProvider.Sync: every table of the provider is durable
SyncedTables(dur, objs) == dur \cup objs

\* metadata of an output table of compaction c
OutputMeta(c) ==
  [MkFile(c.outLevel, c.smallest, c.largest, 0, 0) EXCEPT
     !.smallestSeq = 0, !.largestSeq = 0]

\* runCopyCompaction with DB.mu released: the copy is created and the provider
\* synced, or a step after the creation fails; then DB.mu is taken again
CopyIO(j) ==
  /\ ~fatal /\ mu = NoJob /\ comp[j].pc = "c_copy"
  /\ LET c == comp[j]
         f == c.tw
         src == CHOOSE g \in c.inputs : TRUE
     IN \/ /\ objects' = objects \cup {f}
           /\ durable' = SyncedTables(durable, objects \cup {f})
           /\ files' = [files EXCEPT ![f] = [files[src] EXCEPT !.level = c.outLevel,
                                                !.state = "NotCompacting",
                                                !.intraL0 = FALSE]]
           /\ comp' = [comp EXCEPT ![j].pc = "c_apply", ![j].tw = NoFileNum,
                                  ![j].pending = {f}, ![j].created = {f},
                                  ![j].newFiles = {f}]
           /\ UNCHANGED budget
        \/ \* CopySpan, LinkOrCopyFromLocal or Sync fails after the creation
           /\ budget.faults > 0
           /\ budget' = [budget EXCEPT !.faults = @ - 1]
           /\ objects' = objects \cup {f}
           /\ comp' = [comp EXCEPT ![j] = [Fail(c, "io") EXCEPT
                                            !.pc = "c_post", !.tw = NoFileNum,
                                            !.pending = {f}, !.created = {f}]]
           /\ UNCHANGED <<durable, files>>
  /\ mu' = j
  /\ UNCHANGED <<closed, readOnly, fatal, logHolder, compactingCount,
                 downloadingCount, flushing, inProgress, manual, manualDone,
                 downloads, deletionHints, snapshots, version, nextFileNum,
                 obsoleteTables, queue, fn, minUnflushedLogNum, flushedLogNums>>

\* ascending sequence of the elements of a set of numbers
RECURSIVE SortedSeq(_)
SortedSeq(S) == IF S = {} THEN <<>> ELSE <<Min(S)>> \o SortedSeq(S \ {Min(S)})
Range(s) == {s[i] : i \in DOMAIN s}

\* runCompaction's deferred cleanup on an error: the writer is closed, the
\* created files are removed from the provider, pendingOutputs is dropped
RunnerCleanup(c, e) ==
  [Fail(c, e) EXCEPT !.pc = IF c.kind = "Flush" THEN "f_lock" ELSE "c_post",
                     !.tw = NoFileNum, !.pending = {}, !.checked = FALSE]

\* the test that opens newOutput: c.cancel.Load()
cancelLoad_never(c) == FALSE
cancelLoad(c) == c.cancel

\* newOutput, first step: the cancel test, made without DB.mu. A cancelled
\* compaction returns ErrCancelledCompaction, the deferred cleanup of
\* runCompaction removes the created files and DB.mu is taken again
NewOutputCheck(j) ==
  /\ ~fatal /\ comp[j].pc = "c_io"
  /\ comp[j].tw = NoFileNum /\ ~comp[j].checked
  /\ LET c == comp[j] IN
     IF cancelLoad(c)
       THEN /\ mu = NoJob
            /\ comp' = [comp EXCEPT ![j] = RunnerCleanup(c, "ErrCancelledCompaction")]
            /\ objects' = objects \ c.created
            /\ mu' = j
       ELSE /\ nextFileNum <= MaxFileNum
            /\ Cardinality(c.created) < MaxOutputs
            /\ comp' = [comp EXCEPT ![j].checked = TRUE]
            /\ UNCHANGED <<mu, objects>>
  /\ UNCHANGED <<closed, readOnly, fatal, logHolder, compactingCount,
                 downloadingCount, flushing, inProgress, manual, manualDone,
                 downloads, deletionHints, snapshots, version, durable, files, nextFileNum,
                 obsoleteTables, queue, fn, minUnflushedLogNum, flushedLogNums, budget>>

\* newOutput after the test: a file number under DB.mu, then the object and
\* its writer
NewOutput(j) ==
  /\ ~fatal /\ mu = NoJob /\ comp[j].pc = "c_io"
  /\ comp[j].tw = NoFileNum /\ comp[j].checked
  /\ LET c == comp[j] IN
       /\ nextFileNum <= MaxFileNum
       /\ nextFileNum' = nextFileNum + 1
       /\ objects' = objects \cup {nextFileNum}
       /\ files' = [files EXCEPT ![nextFileNum] = OutputMeta(c)]
       /\ comp' = [comp EXCEPT ![j].tw = nextFileNum, ![j].checked = FALSE,
                              ![j].pending = @ \cup {nextFileNum},
                              ![j].created = @ \cup {nextFileNum},
                              ![j].newFiles = @ \cup {nextFileNum}]
       /\ UNCHANGED mu
  /\ UNCHANGED <<closed, readOnly, fatal, logHolder, compactingCount,
                 downloadingCount, flushing, inProgress, manual, manualDone,
                 downloads, deletionHints, snapshots, version, durable,
                 obsoleteTables, queue, fn, minUnflushedLogNum, flushedLogNums, budget>>

\* finishOutput: tw.Close succeeds and the table's metadata is recorded
FinishOutput(j) ==
  /\ ~fatal /\ comp[j].pc = "c_io" /\ comp[j].tw # NoFileNum
  /\ comp' = [comp EXCEPT ![j].tw = NoFileNum]
  /\ UNCHANGED <<closed, readOnly, fatal, mu, logHolder, compactingCount,
                 downloadingCount, flushing, inProgress, manual, manualDone,
                 downloads, deletionHints, snapshots, files, version, nextFileNum,
                 objects, durable, obsoleteTables, queue, fn, minUnflushedLogNum, flushedLogNums, budget>>

\* an error inside runCompaction after DB.mu was released (newInputIter,
\* Create, Add, Close, a bounds check, Sync): the deferred cleanup runs and
\* DB.mu is taken again
RunnerIOError(j) ==
  /\ ~fatal /\ mu = NoJob /\ comp[j].pc = "c_io"
  /\ budget.faults > 0
  /\ budget' = [budget EXCEPT !.faults = @ - 1]
  /\ comp' = [comp EXCEPT ![j] = RunnerCleanup(comp[j], "io")]
  /\ objects' = objects \ comp[j].created
  /\ mu' = j
  /\ UNCHANGED <<closed, readOnly, fatal, logHolder, compactingCount,
                 downloadingCount, flushing, inProgress, manual, manualDone,
                 downloads, deletionHints, snapshots, files, version, nextFileNum,
                 durable, obsoleteTables, queue, fn, minUnflushedLogNum, flushedLogNums>>

\* the output loop ends with every writer closed; objProvider.Sync; DB.mu is
\* taken again and runCompaction returns the version edit
RunnerDone(j) ==
  /\ ~fatal /\ mu = NoJob /\ comp[j].pc = "c_io"
  /\ comp[j].tw = NoFileNum /\ ~comp[j].checked
  /\ durable' = SyncedTables(durable, objects)
  /\ comp' = [comp EXCEPT ![j].pc = IF comp[j].kind = "Flush" THEN "f_lock" ELSE "c_apply"]
  /\ mu' = j
  /\ UNCHANGED <<closed, readOnly, fatal, logHolder, compactingCount,
                 downloadingCount, flushing, inProgress, manual, manualDone,
                 downloads, deletionHints, snapshots, files, version, nextFileNum,
                 objects, obsoleteTables, queue, fn, minUnflushedLogNum, flushedLogNums, budget>>

\* compact1 under the manifest lock without the cancel test
ApplyUnderLogLock_ignoreCancel(j) ==
  /\ comp' = [comp EXCEPT ![j].pc = "c_applying"]
  /\ mu' = NoJob /\ logHolder' = j

\* compact1 under the manifest lock: a cancelled compaction unlocks and
\* returns ErrCancelledCompaction; otherwise logAndApply is called, which
\* writes the manifest with DB.mu released
ApplyUnderLogLock(j) ==
  IF comp[j].cancel
    THEN /\ comp' = [comp EXCEPT ![j].err = "ErrCancelledCompaction", ![j].pc = "c_post"]
         /\ mu' = j /\ logHolder' = NoJob
    ELSE /\ comp' = [comp EXCEPT ![j].pc = "c_applying"]
         /\ mu' = NoJob /\ logHolder' = j

unchangedByApply ==
  UNCHANGED <<closed, readOnly, fatal, compactingCount, downloadingCount,
              flushing, inProgress, manual, manualDone, downloads, deletionHints,
              snapshots, files, version, nextFileNum, objects, durable,
              obsoleteTables, queue, fn, minUnflushedLogNum, flushedLogNums, budget>>

\* compact1 reaches logLock(): it has the lock at once, or waits for it with
\* DB.mu released
CompactApply(j) ==
  /\ Holds(j) /\ comp[j].pc = "c_apply"
  /\ IF logHolder = NoJob
       THEN ApplyUnderLogLock(j)
       ELSE /\ comp' = [comp EXCEPT ![j].pc = "c_applywait"]
            /\ mu' = logLockWait(j)
            /\ UNCHANGED logHolder
  /\ unchangedByApply

\* logLock() returns in compact1
CompactApplyLocked(j) ==
  /\ ~fatal /\ mu = NoJob /\ logHolder = NoJob /\ comp[j].pc = "c_applywait"
  /\ ApplyUnderLogLock(j)
  /\ unchangedByApply

\* the version after a version edit that deletes del and adds new
ApplyEdit(v, del, new) == (v \ del) \cup new

\* logAndApply returns: the edit is installed, or the manifest write failed;
\* either way the manifest lock is released and DB.mu is held again
LogAndApplyEnd(j) ==
  /\ ~fatal /\ mu = NoJob /\ logHolder = j /\ comp[j].pc = "c_applying"
  /\ LET c == comp[j] IN
     \/ /\ version' = ApplyEdit(version, c.inputs, c.newFiles)
        /\ files' = [f \in FileNums |->
                       IF c.kind = "Move" /\ f \in c.inputs
                         THEN [files[f] EXCEPT !.level = c.outLevel]
                         ELSE files[f]]
        /\ comp' = [comp EXCEPT ![j].pc = "c_post"]
        /\ UNCHANGED budget
     \/ /\ budget.faults > 0
        /\ budget' = [budget EXCEPT !.faults = @ - 1]
        /\ comp' = [comp EXCEPT ![j].err = "io", ![j].pc = "c_post"]
        /\ UNCHANGED <<version, files>>
  /\ mu' = j /\ logHolder' = NoJob
  /\ UNCHANGED <<closed, readOnly, fatal, compactingCount, downloadingCount,
                 flushing, inProgress, manual, manualDone, downloads,
                 deletionHints, snapshots, nextFileNum, objects, durable,
                 obsoleteTables, queue, fn, minUnflushedLogNum, flushedLogNums>>

\* maybeUpdateDeleteCompactionHints
maybeUpdateDeleteCompactionHints(fs, hints, c) ==
  LET Keep(h) ==
        \/ h.end < c.smallest \/ h.start > c.largest
        \/ \A f \in c.inputs : fs[f].largestSeq < h.tombstoneSmallestSeqNum
  IN IF ~c.allowedZeroSeqNum THEN hints ELSE SelectSeq(hints, Keep)

\* the hints after compact1 or flush1 has the result of the job
HintsAfter_ignoreErr(fs, hints, c) == maybeUpdateDeleteCompactionHints(fs, hints, c)
HintsAfter(fs, hints, c) ==
  IF c.err = "nil" THEN maybeUpdateDeleteCompactionHints(fs, hints, c) ELSE hints

\* the rollback argument compact1 and flush1 give clearCompactingState
Rollback_never(c) == FALSE
Rollback(c) == c.err # "nil"

\* what compact1 and flush1 append to obsoleteTables when the apply step failed
ObsoleteOnApplyError_none(c) == <<>>
ObsoleteOnApplyError(c) ==
  IF c.runErr = "nil" /\ c.err # "nil" THEN SortedSeq(c.pending) ELSE <<>>

\* compact1 after runCompaction and the apply step: the pending outputs of a
\* failed apply become obsolete, the hints are updated after a success, and
\* clearCompactingState removes the markers and asks for the manifest lock
CompactPost(j) ==
  /\ Holds(j) /\ comp[j].pc = "c_post"
  /\ LET c == comp[j] IN
     /\ obsoleteTables' = obsoleteTables \o ObsoleteOnApplyError(c)
     /\ deletionHints' = HintsAfter(files, deletionHints, c)
     /\ fatal' = NotBeingCompacted(files, c)
     /\ files' = ClearCompacting(files, c, Rollback(c))
     /\ IF logHolder = NoJob
          THEN /\ comp' = [comp EXCEPT ![j].pc = "c_clear", ![j].versionEditApplied = TRUE]
               /\ UNCHANGED mu
          ELSE /\ comp' = [comp EXCEPT ![j].pc = "c_clearwait", ![j].versionEditApplied = TRUE]
               /\ mu' = logLockWait(j)
  /\ UNCHANGED <<closed, readOnly, logHolder, compactingCount, downloadingCount,
                 flushing, inProgress, manual, manualDone, downloads, snapshots,
                 version, nextFileNum, objects, durable, queue, fn, minUnflushedLogNum, flushedLogNums, budget>>

\* logLock() returns in clearCompactingState; InitCompactingFileInfo; logUnlock
ClearLocked(j) ==
  /\ ~fatal /\ mu = NoJob /\ logHolder = NoJob
  /\ comp[j].pc \in {"c_clearwait", "f_clearwait"}
  /\ mu' = j
  /\ comp' = [comp EXCEPT ![j].pc = IF @ = "c_clearwait" THEN "c_clear" ELSE "f_clear"]
  /\ UNCHANGED <<closed, readOnly, fatal, logHolder, compactingCount,
                 downloadingCount, flushing, inProgress, manual, manualDone,
                 downloads, deletionHints, snapshots, files, version, nextFileNum,
                 objects, durable, obsoleteTables, queue, fn, minUnflushedLogNum, flushedLogNums, budget>>

\* the tables a successful edit removed from the version, which the unref of
\* the previous version makes obsolete
Unreferenced(c) ==
  IF c.err = "nil" THEN SortedSeq((c.inputs \cup c.deleted) \ c.newFiles) ELSE <<>>

\* the end of compact1: updateReadStateLocked after a success, then
\* deleteObsoleteFiles, which hands the obsolete tables to the cleaner and
\* releases DB.mu
CompactEnd(j) ==
  /\ Holds(j) /\ comp[j].pc = "c_clear"
  /\ LET c == comp[j]
         obsolete == obsoleteTables \o Unreferenced(c)
     IN /\ obsoleteTables' = <<>>
        /\ objects' = objects \ Range(obsolete)
        /\ comp' = [comp EXCEPT ![j].pc = "c_tail"]
  /\ mu' = NoJob
  /\ UNCHANGED <<closed, readOnly, fatal, logHolder, compactingCount,
                 downloadingCount, flushing, inProgress, manual, manualDone,
                 downloads, deletionHints, snapshots, files, version, nextFileNum,
                 durable, queue, fn, minUnflushedLogNum, flushedLogNums, budget>>

\* compact1 returns, its result goes to the manual compaction's done channel;
\* compact decrements the counter, removes c from inProgress and calls
\* maybeScheduleCompaction
CompactTail(j) ==
  /\ ~fatal /\ mu = NoJob /\ comp[j].pc = "c_tail"
  /\ LET c == comp[j] IN
     /\ manualDone' = IF c.manual # 0
                        THEN [manualDone EXCEPT ![c.manual] = Append(@, c.err)]
                        ELSE manualDone
     /\ IF c.isDownload
          THEN downloadingCount' = downloadingCount - 1 /\ UNCHANGED compactingCount
          ELSE compactingCount' = compactingCount - 1 /\ UNCHANGED downloadingCount
     /\ inProgress' = inProgress \ {j}
     /\ comp' = [comp EXCEPT ![j] = [NullComp EXCEPT !.pc = "s_start"]]
  /\ mu' = j
  /\ UNCHANGED <<closed, readOnly, fatal, logHolder, flushing, manual, downloads,
                 deletionHints, snapshots, files, version, nextFileNum, objects,
                 durable, obsoleteTables, queue, fn, minUnflushedLogNum, flushedLogNums, budget>>

\* ----------------------------------------------------------- flush goroutine
\* flush1's choice of the flushables to flush: the number n and whether the
\* flush is the flush of one ingested flushable
FlushPrefix_ignoreReady(q) ==
  LET F[i \in 0..Len(q)] ==
        IF i = 0 THEN [n |-> 0, ingest |-> FALSE, stop |-> FALSE]
        ELSE LET p == F[i-1] IN
             IF p.stop \/ i > Len(q) - 1 THEN [p EXCEPT !.stop = TRUE]
             ELSE IF q[i].kind = "ingest"
               THEN (IF i = 1 THEN [n |-> 1, ingest |-> TRUE, stop |-> TRUE]
                     ELSE [p EXCEPT !.stop = TRUE])
             ELSE [p EXCEPT !.n = i]
  IN [n |-> F[Len(q)].n, ingest |-> F[Len(q)].ingest]
FlushPrefix(q) ==
  LET F[i \in 0..Len(q)] ==
        \* F[i]: the result once entries 1..i were looked at; stop = TRUE after a break
        IF i = 0 THEN [n |-> 0, ingest |-> FALSE, stop |-> FALSE]
        ELSE LET p == F[i-1] IN
             IF p.stop \/ i > Len(q) - 1 THEN [p EXCEPT !.stop = TRUE]
             ELSE IF q[i].kind = "ingest"
               THEN (IF i = 1 THEN [n |-> 1, ingest |-> TRUE, stop |-> TRUE]
                     ELSE [p EXCEPT !.stop = TRUE])
             ELSE IF ~q[i].ready THEN [p EXCEPT !.stop = TRUE]
             ELSE [p EXCEPT !.n = i]
  IN [n |-> F[Len(q)].n, ingest |-> F[Len(q)].ingest]

\* the test maybeScheduleFlush makes before it starts a flush
ShouldFlush_ignoreFlushing(fl, cl, ro, q) ==
  /\ ~(cl \/ ro)
  /\ Len(q) > 1
  /\ passedFlushThreshold(q)
ShouldFlush_ignoreClosed(fl, cl, ro, q) ==
  /\ ~fl
  /\ Len(q) > 1
  /\ passedFlushThreshold(q)
ShouldFlush(fl, cl, ro, q) ==
  /\ ~(fl \/ cl \/ ro)
  /\ Len(q) > 1
  /\ passedFlushThreshold(q)

FlushThread == [NullComp EXCEPT !.pc = "f_start", !.kind = "Flush"]

\* newFlush
newFlush(fs, v, q, n) ==
  IF q[1].kind = "ingest"
    THEN [NullComp EXCEPT !.kind = "IngestedFlushable", !.n = n]
    ELSE LET inuse == setupInuseKeyRanges(fs, v, 0, 1, MaxKey)
         IN [NullComp EXCEPT !.kind = "Flush", !.n = n, !.smallest = 1, !.largest = MaxKey,
                             !.inuseKeyRanges = inuse.inuseKeyRanges,
                             !.inuseEntireRange = inuse.inuseEntireRange]

\* the log-number assertion of flush1
LogNumInvariantViolated(q, n) == \E i \in 1..n : q[i].logNum >= q[n+1].logNum

\* flush: d.mu.Lock, then flush1 up to the point where runCompaction releases
\* DB.mu (a flush of memtables) or logLock() is reached (an ingested flushable)
FlushBegin(j) ==
  /\ ~fatal /\ mu = NoJob /\ comp[j].pc = "f_start"
  /\ LET p == FlushPrefix(queue)
         f == newFlush(files, version, queue, p.n)
         c == [f EXCEPT !.minUnflushedLogNum = queue[p.n + 1].logNum,
                        !.allowedZeroSeqNum =
                           allowZeroSeqNum(FALSE, p.n, f.inuseKeyRanges, f.smallest, f.largest)]
     IN IF p.n = 0
          THEN /\ comp' = [comp EXCEPT ![j].pc = "f_tail"]
               /\ mu' = j
               /\ UNCHANGED <<inProgress, fatal, budget>>
          ELSE \/ /\ fatal' = LogNumInvariantViolated(queue, p.n)
                  /\ inProgress' = inProgress \cup {j}
                  /\ IF c.kind = "Flush"
                       THEN comp' = [comp EXCEPT ![j] = [c EXCEPT !.pc = "c_io"]] /\ mu' = NoJob
                       ELSE comp' = [comp EXCEPT ![j] = [c EXCEPT !.pc = "f_lock"]] /\ mu' = j
                  /\ UNCHANGED budget
               \/ \* newFlush returns an error
                  /\ c.kind = "Flush" /\ budget.faults > 0
                  /\ budget' = [budget EXCEPT !.faults = @ - 1]
                  /\ comp' = [comp EXCEPT ![j].pc = "f_tail", ![j].err = "io"]
                  /\ mu' = j
                  /\ UNCHANGED <<inProgress, fatal>>
  /\ UNCHANGED <<closed, readOnly, logHolder, compactingCount, downloadingCount,
                 flushing, manual, manualDone, downloads, deletionHints,
                 snapshots, files, version, nextFileNum, objects, durable,
                 obsoleteTables, queue, fn, minUnflushedLogNum, flushedLogNums>>

\* d.excise for every table of the version that overlaps the excise span
\* [es, ee): the table is deleted and replaced by up to two virtual tables
\* that cover what lies outside the span
RECURSIVE ExciseAll(_, _, _, _, _)
ExciseAll(fs, todo, es, ee, next) ==
  IF todo = {} THEN [fs |-> fs, new |-> {}, next |-> next]
  ELSE LET m    == Min(todo)
           hasL == fs[m].smallest < es
           hasR == fs[m].largest >= ee
           nL   == next
           nR   == IF hasL THEN next + 1 ELSE next
           nN   == IF hasR THEN nR + 1 ELSE nR
           piece == [fs[m] EXCEPT !.virtual = TRUE, !.state = "NotCompacting",
                                  !.intraL0 = FALSE]
           fs1  == IF hasL THEN [fs EXCEPT ![nL] = [piece EXCEPT !.largest = es - 1]] ELSE fs
           fs2  == IF hasR THEN [fs1 EXCEPT ![nR] = [piece EXCEPT !.smallest = ee]] ELSE fs1
           rest == ExciseAll(fs2, todo \ {m}, es, ee, nN)
       IN [fs |-> rest.fs,
           new |-> rest.new \cup (IF hasL THEN {nL} ELSE {}) \cup (IF hasR THEN {nR} ELSE {}),
           next |-> rest.next]

Excised(fs, v, es, ee) ==
  {m \in v : fs[m].smallest < ee /\ fs[m].largest >= es}

\* runIngestFlush: the version edit of the flush of an ingested flushable
runIngestFlush(fs, v, e, next) ==
  LET valid == exciseSpanValid(e)
      inside == /\ valid
                /\ e.exciseStart <= fs[e.file].smallest /\ fs[e.file].smallest < e.exciseEnd
                /\ e.exciseStart <= fs[e.file].largest /\ fs[e.file].largest < e.exciseEnd
      lvl == IF inside THEN 6 ELSE 0
      del == IF valid THEN Excised(fs, v, e.exciseStart, e.exciseEnd) ELSE {}
      ex  == ExciseAll(fs, del, e.exciseStart, e.exciseEnd, next)
  IN [fs |-> [ex.fs EXCEPT ![e.file].level = lvl],
      deleted |-> del, new |-> ex.new \cup {e.file}, next |-> ex.next]

\* the compactions flush1 cancels before it applies the edit of an ingested
\* flushable: those whose key range overlaps the excise span, and those with
\* an input the edit deletes
CancelledByIngest_none(cs, inProg, e, del) == {}
CancelledByIngest(cs, inProg, e, del) ==
  {c2 \in inProg :
     \/ OverlapsInternalKeyRange(e.exciseStart, e.exciseEnd, cs[c2].smallest, cs[c2].largest)
     \/ (del # {} /\ cs[c2].inputs \cap del # {})}

\* the Err field of the FlushEnd event before the apply step: the error of
\* the run, or errEmptyTable when the run succeeded with no new file
FlushInfoErr_nil(err, newFiles) == err
FlushInfoErr(err, newFiles) ==
  IF err = "nil" /\ newFiles = {} THEN "errEmptyTable" ELSE err

\* flush1 under the manifest lock: runIngestFlush for an ingested flushable;
\* after an error logUnlock; otherwise the overlapping compactions are
\* cancelled and logAndApply is called, which releases DB.mu
FlushUnderLogLock(j) ==
  LET c == comp[j]
      e == queue[1]
      r == runIngestFlush(files, version, e, nextFileNum)
      cancelled == CancelledByIngest(comp, inProgress, e, r.deleted)
  IN IF c.kind = "IngestedFlushable"
       THEN \/ /\ r.next <= MaxFileNum + 1
               /\ files' = r.fs
               /\ nextFileNum' = r.next
               /\ comp' = [k \in JobIds |->
                             IF k = j THEN [c EXCEPT !.pc = "f_applying", !.deleted = r.deleted,
                                                     !.newFiles = r.new,
                                                     !.infoErr = FlushInfoErr("nil", r.new),
                                                     !.cancel = (j \in cancelled)]
                             ELSE IF k \in cancelled THEN [comp[k] EXCEPT !.cancel = TRUE]
                             ELSE comp[k]]
               /\ mu' = NoJob /\ logHolder' = j
               /\ UNCHANGED budget
            \/ \* ingestTargetLevel or excise fails
               /\ budget.faults > 0
               /\ budget' = [budget EXCEPT !.faults = @ - 1]
               /\ comp' = [comp EXCEPT ![j] = [Fail(c, "io") EXCEPT !.pc = "f_post", !.infoErr = "io"]]
               /\ mu' = j /\ logHolder' = NoJob
               /\ UNCHANGED <<files, nextFileNum>>
       ELSE /\ IF c.err = "nil"
                 THEN /\ comp' = [comp EXCEPT ![j].pc = "f_applying",
                                              ![j].infoErr = FlushInfoErr(c.err, c.newFiles)]
                      /\ mu' = NoJob /\ logHolder' = j
                 ELSE /\ comp' = [comp EXCEPT ![j].pc = "f_post",
                                              ![j].infoErr = FlushInfoErr(c.err, c.newFiles)]
                      /\ mu' = j /\ logHolder' = NoJob
            /\ UNCHANGED <<files, nextFileNum, budget>>

unchangedByFlushLock ==
  UNCHANGED <<closed, readOnly, fatal, compactingCount, downloadingCount,
              flushing, inProgress, manual, manualDone, downloads, deletionHints,
              snapshots, version, objects, durable, obsoleteTables, queue, fn, minUnflushedLogNum, flushedLogNums>>

\* flush1 reaches logLock(): it has the lock at once, or waits for it with
\* DB.mu released
FlushLock(j) ==
  /\ Holds(j) /\ comp[j].pc = "f_lock"
  /\ IF logHolder = NoJob
       THEN FlushUnderLogLock(j)
       ELSE /\ comp' = [comp EXCEPT ![j].pc = "f_lockwait"]
            /\ mu' = logLockWait(j)
            /\ UNCHANGED <<logHolder, files, nextFileNum, budget>>
  /\ unchangedByFlushLock

\* logLock() returns in flush1
FlushLocked(j) ==
  /\ ~fatal /\ mu = NoJob /\ logHolder = NoJob /\ comp[j].pc = "f_lockwait"
  /\ FlushUnderLogLock(j)
  /\ unchangedByFlushLock

\* logAndApply returns in flush1: the edit is installed, or the manifest write
\* failed
FlushApplyEnd(j) ==
  /\ ~fatal /\ mu = NoJob /\ logHolder = j /\ comp[j].pc = "f_applying"
  /\ LET c == comp[j] IN
     \/ /\ version' = ApplyEdit(version, c.deleted, c.newFiles)
        /\ minUnflushedLogNum' = c.minUnflushedLogNum
        /\ comp' = [comp EXCEPT ![j].pc = "f_post"]
        /\ UNCHANGED budget
     \/ /\ budget.faults > 0
        /\ budget' = [budget EXCEPT !.faults = @ - 1]
        /\ comp' = [comp EXCEPT ![j].err = "io", ![j].infoErr = "io", ![j].pc = "f_post"]
        /\ UNCHANGED <<version, minUnflushedLogNum>>
  /\ mu' = j /\ logHolder' = NoJob
  /\ UNCHANGED <<closed, readOnly, fatal, compactingCount, downloadingCount,
                 flushing, inProgress, manual, manualDone, downloads,
                 deletionHints, snapshots, files, nextFileNum, objects, durable,
                 obsoleteTables, queue, fn, flushedLogNums>>

\* flush1 after the apply step: the pending outputs of a failed apply become
\* obsolete, the hints are updated after a success, and clearCompactingState
\* asks for the manifest lock
FlushPost(j) ==
  /\ Holds(j) /\ comp[j].pc = "f_post"
  /\ LET c == comp[j] IN
     /\ obsoleteTables' = obsoleteTables \o ObsoleteOnApplyError(c)
     /\ deletionHints' = HintsAfter(files, deletionHints, c)
     /\ IF logHolder = NoJob
          THEN /\ comp' = [comp EXCEPT ![j].pc = "f_clear", ![j].versionEditApplied = TRUE]
               /\ UNCHANGED mu
          ELSE /\ comp' = [comp EXCEPT ![j].pc = "f_clearwait", ![j].versionEditApplied = TRUE]
               /\ mu' = logLockWait(j)
  /\ UNCHANGED <<closed, readOnly, fatal, logHolder, compactingCount,
                 downloadingCount, flushing, inProgress, manual, manualDone,
                 downloads, snapshots, files, version, nextFileNum, objects,
                 durable, queue, fn, minUnflushedLogNum, flushedLogNums, budget>>

\* flush1 takes the flushed entries from the queue: if err == nil
flushSucceeded_always(c) == TRUE
flushSucceeded(c) == c.err = "nil"

\* the end of flush1: the compaction leaves inProgress, the flushed entries
\* leave the queue after a success, and deleteObsoleteFiles releases DB.mu
FlushEnd(j) ==
  /\ Holds(j) /\ comp[j].pc = "f_clear"
  /\ LET c == comp[j]
         obsolete == obsoleteTables \o Unreferenced(c)
     IN /\ inProgress' = inProgress \ {j}
        /\ queue' = IF flushSucceeded(c) THEN SubSeq(queue, c.n + 1, Len(queue)) ELSE queue
        /\ obsoleteTables' = <<>>
        /\ objects' = objects \ Range(obsolete)
        /\ comp' = [comp EXCEPT ![j].pc = "f_tail0",
                                ![j].flushed = IF flushSucceeded(c)
                                                 THEN {queue[i].logNum : i \in 1..c.n}
                                                 ELSE {}]
  /\ mu' = NoJob
  /\ UNCHANGED <<closed, readOnly, fatal, logHolder, compactingCount,
                 downloadingCount, flushing, manual, manualDone, downloads,
                 deletionHints, snapshots, files, version, nextFileNum, durable,
                 minUnflushedLogNum, flushedLogNums, fn, budget>>

\* flush1 closes the flushed channels and returns; flush clears the flushing
\* flag, calls maybeScheduleFlush,
\* which may start the next flush, and then maybeScheduleCompaction
FlushTail(j) ==
  /\ ~fatal
  /\ \/ comp[j].pc = "f_tail0" /\ mu = NoJob
     \/ comp[j].pc = "f_tail" /\ mu = j
  /\ mu' = j
  /\ flushedLogNums' = flushedLogNums \cup comp[j].flushed
  /\ IF ShouldFlush(FALSE, closed, readOnly, queue)
       THEN /\ flushing' = TRUE
            /\ comp' = [comp EXCEPT ![j] = [NullComp EXCEPT !.pc = "s_start"],
                                   ![NewJob] = FlushThread]
       ELSE /\ flushing' = FALSE
            /\ comp' = [comp EXCEPT ![j] = [NullComp EXCEPT !.pc = "s_start"]]
  /\ UNCHANGED <<closed, readOnly, fatal, logHolder, compactingCount,
                 downloadingCount, inProgress, manual, manualDone, downloads,
                 deletionHints, snapshots, files, version, nextFileNum, objects,
                 durable, obsoleteTables, queue, fn, minUnflushedLogNum, budget>>

\* -------------------------------------------------------------- environment
\* maybeScheduleFlush called with the queue q: the flag is set and the flush
\* goroutine started
ScheduleFlush(q) ==
  IF ShouldFlush(flushing, closed, readOnly, q)
    THEN /\ flushing' = TRUE
         /\ comp' = [comp EXCEPT ![NewJob] = FlushThread]
    ELSE UNCHANGED <<flushing, comp>>

\* rotation of the mutable memtable (makeRoomForWrite): it becomes immutable
\* with b bytes, and a new mutable memtable with the next log number follows
makeRoomForWrite(q, b, r, forced) ==
  LET last == q[Len(q)]
  IN Append([q EXCEPT ![Len(q)] = [last EXCEPT !.bytes = b, !.ready = r,
                                                !.flushForced = forced]],
            MkMem(last.logNum + 1, 0))

unchangedByWrite ==
  UNCHANGED <<closed, readOnly, fatal, mu, logHolder, compactingCount,
              downloadingCount, inProgress, manual, manualDone, downloads,
              deletionHints, snapshots, version, obsoleteTables,
              minUnflushedLogNum, flushedLogNums, fn>>

\* a write fills the mutable memtable
Rotate ==
  /\ ~fatal /\ mu = NoJob /\ ~closed /\ ~readOnly
  /\ budget.rot > 0
  /\ budget' = [budget EXCEPT !.rot = @ - 1]
  /\ \E b \in {0, MemTableSize} :
       /\ queue' = makeRoomForWrite(queue, b, FALSE, FALSE)
       /\ ScheduleFlush(queue')
  /\ UNCHANGED <<files, nextFileNum, objects, durable>>
  /\ unchangedByWrite

\* the last writer of an immutable memtable is done: the memtable is ready for
\* flushing and maybeScheduleFlush is called
MemReady ==
  /\ ~fatal /\ mu = NoJob
  /\ \E i \in 1..Len(queue) - 1 :
       /\ ~queue[i].ready
       /\ queue' = [queue EXCEPT ![i].ready = TRUE]
       /\ ScheduleFlush(queue')
  /\ UNCHANGED <<files, nextFileNum, objects, durable, budget>>
  /\ unchangedByWrite

\* the timer of maybeScheduleDelayedFlush fires for the memtable at index i,
\* possibly after Close
TimerFire ==
  /\ ~fatal /\ mu = NoJob /\ ~readOnly
  /\ budget.timer > 0
  /\ budget' = [budget EXCEPT !.timer = @ - 1]
  /\ \E i \in 1..Len(queue) :
       /\ queue[i].kind = "mem" /\ ~queue[i].flushForced
       /\ IF closed
            THEN UNCHANGED <<queue, flushing, comp>>
            ELSE /\ queue' = IF i = Len(queue)
                               THEN makeRoomForWrite(queue, 0, TRUE, TRUE)
                               ELSE [queue EXCEPT ![i].flushForced = TRUE]
                 /\ ScheduleFlush(queue')
  /\ UNCHANGED <<files, nextFileNum, objects, durable>>
  /\ unchangedByWrite

\* the table an ingestion adds
IngestedFile == MkFile(0, 4, 5, 10, 10)
ExciseSpans == {<<NilKey, NilKey>>, <<4, 6>>}

\* an ingestion that overlaps the memtable is queued as a flushable: the
\* mutable memtable is rotated, the ingested table follows it in the queue
Ingest ==
  /\ ~fatal /\ mu = NoJob /\ ~closed /\ ~readOnly
  /\ budget.ingest > 0 /\ nextFileNum <= MaxFileNum
  /\ budget' = [budget EXCEPT !.ingest = @ - 1]
  /\ files' = [files EXCEPT ![nextFileNum] = IngestedFile]
  /\ objects' = objects \cup {nextFileNum}
  /\ durable' = durable \cup {nextFileNum}
  /\ nextFileNum' = nextFileNum + 1
  /\ \E span \in ExciseSpans :
       LET q1 == makeRoomForWrite(queue, 0, TRUE, TRUE)
           ln == q1[Len(q1)].logNum
           q2 == [q1 EXCEPT ![Len(q1)] = MkIngest(ln, nextFileNum, span[1], span[2])]
       IN /\ queue' = Append(q2, MkMem(ln + 1, 0))
          /\ ScheduleFlush(queue')
  /\ unchangedByWrite

\* a caller of maybeScheduleCompaction outside this file, after it has changed
\* the state it owns: a manual compaction is queued, a download task is added,
\* the last snapshot is closed, or nothing changed (maybeScheduleCompactionAsync)
ExternalCall ==
  /\ ~fatal /\ mu = NoJob /\ ~closed
  /\ \/ /\ budget.manual > 0
        /\ budget' = [budget EXCEPT !.manual = @ - 1]
        /\ manual' = Append(manual, [id |-> MaxManual - budget.manual + 1, retries |-> 0])
        /\ UNCHANGED <<downloads, snapshots>>
     \/ /\ budget.tasks > 0
        /\ budget' = [budget EXCEPT !.tasks = @ - 1]
        /\ \E f \in DownloadFiles : downloads' = Append(downloads, f)
        /\ UNCHANGED <<manual, snapshots>>
     \/ /\ budget.ext > 0
        /\ budget' = [budget EXCEPT !.ext = @ - 1]
        /\ snapshots' = <<>>
        /\ UNCHANGED <<manual, downloads>>
  /\ comp' = [comp EXCEPT ![NewJob] = [NullComp EXCEPT !.pc = "s_start"]]
  /\ mu' = NewJob
  /\ UNCHANGED <<closed, readOnly, fatal, logHolder, compactingCount,
                 downloadingCount, flushing, inProgress, manualDone,
                 deletionHints, files, version, nextFileNum, objects, durable,
                 obsoleteTables, queue, fn, minUnflushedLogNum, flushedLogNums>>

\* DB.Close sets d.closed under DB.mu
Close ==
  /\ ~fatal /\ mu = NoJob /\ ~closed
  /\ budget.close > 0
  /\ budget' = [budget EXCEPT !.close = @ - 1]
  /\ closed' = TRUE
  /\ UNCHANGED <<readOnly, mu, logHolder, compactingCount, downloadingCount,
                 flushing, inProgress, manual, manualDone, downloads,
                 deletionHints, snapshots, files, version, nextFileNum, objects,
                 durable, obsoleteTables, queue, fn, minUnflushedLogNum, flushedLogNums, comp, fatal>>

\* versionSet.addLiveFileNums and the loop over the queue: the tables of the
\* live versions and of the ingested flushables in the queue
liveFileNums_versionsOnly(v, q) == v
liveFileNums(v, q) ==
  v \cup {q[i].file : i \in {k \in 1..Len(q) : q[k].kind = "ingest"}}

\* mergeTableInfos: both lists, by file number and without duplicates
mergeTableInfos(a, b) == SortedKeys(Range(a) \cup b)

\* scanObsoleteFiles, called with DB.mu held: once no compaction, download
\* or flush is running, the tables of the object provider that are not live
\* are merged into the obsolete tables
scanObsoleteFiles ==
  /\ ~fatal /\ mu = NoJob
  /\ budget.scan > 0
  /\ compactingCount = 0 /\ downloadingCount = 0 /\ ~flushing
  /\ budget' = [budget EXCEPT !.scan = @ - 1]
  /\ obsoleteTables' =
       mergeTableInfos(obsoleteTables, objects \ liveFileNums(version, queue))
  /\ UNCHANGED <<closed, readOnly, mu, logHolder, compactingCount, downloadingCount,
                 flushing, inProgress, manual, manualDone, downloads,
                 deletionHints, snapshots, files, version, nextFileNum, objects,
                 durable, queue, fn, minUnflushedLogNum, flushedLogNums, comp, fatal>>

\* -------------------------------------------------------------------- Next
Next ==
  \/ \E j \in JobIds : SchedStart(j)
  \/ \E j \in JobIds : SchedLogLocked(j)
  \/ \E j \in JobIds : SchedRecheckClosed(j)
  \/ \E j \in JobIds : SchedDeleteOnly(j)
  \/ \E j \in JobIds : SchedManual(j)
  \/ \E j \in JobIds : SchedAuto(j)
  \/ \E j \in JobIds : SchedDownloads(j)
  \/ \E j \in JobIds : CompactBegin(j)
  \/ \E j \in JobIds : CopyIO(j)
  \/ \E j \in JobIds : NewOutputCheck(j)
  \/ \E j \in JobIds : NewOutput(j)
  \/ \E j \in JobIds : FinishOutput(j)
  \/ \E j \in JobIds : RunnerIOError(j)
  \/ \E j \in JobIds : RunnerDone(j)
  \/ \E j \in JobIds : CompactApply(j)
  \/ \E j \in JobIds : CompactApplyLocked(j)
  \/ \E j \in JobIds : LogAndApplyEnd(j)
  \/ \E j \in JobIds : CompactPost(j)
  \/ \E j \in JobIds : ClearLocked(j)
  \/ \E j \in JobIds : CompactEnd(j)
  \/ \E j \in JobIds : CompactTail(j)
  \/ \E j \in JobIds : FlushBegin(j)
  \/ \E j \in JobIds : FlushLock(j)
  \/ \E j \in JobIds : FlushLocked(j)
  \/ \E j \in JobIds : FlushApplyEnd(j)
  \/ \E j \in JobIds : FlushPost(j)
  \/ \E j \in JobIds : FlushEnd(j)
  \/ \E j \in JobIds : FlushTail(j)
  \/ Rotate
  \/ MemReady
  \/ TimerFire
  \/ Ingest
  \/ ExternalCall
  \/ Close
  \/ scanObsoleteFiles

Spec == Init /\ [][Next]_vars

\* ------------------------------------------------- the functions, called alone
\* every variable but fn
dbVars == <<closed, readOnly, mu, logHolder, compactingCount, downloadingCount,
            flushing, inProgress, manual, manualDone, downloads, deletionHints,
            snapshots, files, version, nextFileNum, objects, durable,
            obsoleteTables, queue, minUnflushedLogNum, flushedLogNums, comp,
            budget, fatal>>

MaxFlushing == 2

\* in-use key ranges: sorted, disjoint, not abutting
KeyRangeSets ==
  { <<>>,
    <<[Start |-> 1, End |-> MaxKey]>>,
    <<[Start |-> 2, End |-> 3]>>,
    <<[Start |-> 2, End |-> 3], [Start |-> 5, End |-> 5]>>,
    <<[Start |-> 1, End |-> 2], [Start |-> 4, End |-> 4], [Start |-> MaxKey, End |-> MaxKey]>> }

\* a compaction or flush with bounds [start, end] over table 1 asks about the
\* point tombstone at start and the span [start, end]
ElideCalls ==
  { [op |-> "elide", done |-> FALSE, flushingLen |-> n, disableSpanElision |-> d,
     inuseKeyRanges |-> r, start |-> s, end |-> e, hints |-> <<Hint2, Hint1>>,
     out |-> [none |-> TRUE]] :
      n \in 0..MaxFlushing, d \in BOOLEAN, r \in KeyRangeSets,
      s \in 1..MaxKey, e \in 1..MaxKey }

CallElide ==
  /\ fn.op = "elide" /\ ~fn.done /\ fn.start <= fn.end
  /\ LET entire == /\ Len(fn.inuseKeyRanges) > 0
                    /\ fn.inuseKeyRanges[1].Start <= fn.start
                    /\ fn.inuseKeyRanges[1].End >= fn.end
         zero == allowZeroSeqNum(fn.disableSpanElision, fn.flushingLen,
                                 fn.inuseKeyRanges, fn.start, fn.end)
         c == [NullComp EXCEPT !.inputs = {1}, !.smallest = fn.start,
                               !.largest = fn.end, !.allowedZeroSeqNum = zero]
     IN fn' = [fn EXCEPT
                 !.done = TRUE,
                 !.out = [elideTombstone |->
                            elideTombstone(entire, fn.flushingLen, fn.inuseKeyRanges,
                                           0, fn.start).elide,
                          elideRangeTombstone |->
                            elideRangeTombstone(fn.disableSpanElision, fn.flushingLen,
                                                fn.inuseKeyRanges, fn.start, fn.end),
                          elideRangeKey |->
                            elideRangeKey(fn.disableSpanElision, fn.flushingLen,
                                          fn.inuseKeyRanges, fn.start, fn.end),
                          allowedZeroSeqNum |-> zero,
                          hints |-> maybeUpdateDeleteCompactionHints(InitFiles, fn.hints, c)]]
  /\ UNCHANGED dbVars

MaxStartFiles == 2
MaxGrandparentBytes == 2
MaxOverlap == 1

\* picked compactions: the kind the picker chose, the intermediate levels of
\* a multi-level compaction, the number of start-level tables, whether the
\* output level is empty, the bytes of the overlapping grandparents, and the
\* start-level table (remote or local, virtual or physical)
NewCompactionCalls ==
  { [op |-> "newCompaction", done |-> FALSE, pcKind |-> k, extraLevels |-> x,
     startLen |-> n, outputEmpty |-> oe, grandparentsSize |-> g,
     outputLevel |-> l, isRemote |-> r, virtual |-> vi, out |-> [none |-> TRUE]] :
      k \in {"Default", "ElisionOnly"}, x \in {<<>>, <<{}>>, <<{2}>>},
      n \in 1..MaxStartFiles, oe \in BOOLEAN, g \in 0..MaxGrandparentBytes,
      l \in {SharedFromLevel - 1, SharedFromLevel}, r \in BOOLEAN, vi \in BOOLEAN }

CallNewCompaction ==
  /\ fn.op = "newCompaction" /\ ~fn.done
  /\ fn' = [fn EXCEPT
              !.done = TRUE,
              !.out = [kind |-> newCompactionKind(fn.pcKind, fn.outputEmpty,
                                                  hasExtraLevelData(fn.extraLevels),
                                                  fn.startLen, fn.grandparentsSize,
                                                  MaxOverlap, fn.isRemote,
                                                  ShouldCreateShared(fn.outputLevel),
                                                  fn.virtual)]]
  /\ UNCHANGED dbVars

MaxHints == 2
HintSet == {Hint1, Hint2, Hint3, Hint4}
HintLists == UNION {[1..n -> HintSet] : n \in 0..MaxHints}
SnapshotLists == {<<>>, <<2>>, <<5>>, <<2, 5>>}

\* the LSM at Open with the tables of cs being compacted
FilesCompacting(cs) ==
  [f \in FileNums |-> IF f \in cs THEN [InitFiles[f] EXCEPT !.state = "Compacting"]
                                   ELSE InitFiles[f]]

CheckHintsCalls ==
  { [op |-> "tryScheduleDeleteOnlyCompaction", done |-> FALSE, hints |-> h,
     snapshots |-> s, compacting |-> cs, out |-> [none |-> TRUE]] :
      h \in HintLists, s \in SnapshotLists, cs \in SUBSET {2, 3} }

\* tryScheduleDeleteOnlyCompaction: the hints it leaves and the compaction it
\* launches, if any
CallTryScheduleDeleteOnlyCompaction ==
  /\ fn.op = "tryScheduleDeleteOnlyCompaction" /\ ~fn.done
  /\ LET fs == FilesCompacting(fn.compacting)
         r  == checkDeleteCompactionHints(fs, version, fn.hints, fn.snapshots)
     IN fn' = [fn EXCEPT
                 !.done = TRUE,
                 !.out = [inputs |-> r.inputs,
                          deletionHints |-> r.unresolvedHints,
                          launched |-> IF r.inputs # {}
                                         THEN {newDeleteOnlyCompaction(fs, r.inputs)}
                                         ELSE {}]]
  /\ UNCHANGED dbVars

\* hints over [2, 5) with tombstones up to #7, and the tables they are asked
\* about
TestHints ==
  { [hintType |-> ty, start |-> 2, end |-> 5, tombstoneLevel |-> 0,
     tombstoneSmallestSeqNum |-> ts, tombstoneLargestSeqNum |-> 7,
     fileSmallestSeqNum |-> fsq] :
      ty \in {"PointKeyOnly", "RangeKeyOnly", "PointAndRangeKey"},
      ts \in {4, 6}, fsq \in {1, 3} }
TestTables ==
  { [MkFile(1, s, e, sq[1], sq[2]) EXCEPT !.hasPoint = k[1], !.hasRange = k[2]] :
      s \in 1..3, e \in 4..5, sq \in {<<1, 1>>, <<1, 3>>, <<2, 5>>, <<3, 3>>, <<5, 6>>},
      k \in {<<TRUE, FALSE>>, <<FALSE, TRUE>>, <<TRUE, TRUE>>} }

CanDeleteCalls ==
  { [op |-> "canDelete", done |-> FALSE, h |-> h, m |-> m, snapshots |-> s,
     out |-> [none |-> TRUE]] :
      h \in TestHints, m \in TestTables, s \in SnapshotLists }

CallCanDelete ==
  /\ fn.op = "canDelete" /\ ~fn.done
  /\ fn' = [fn EXCEPT !.done = TRUE,
                      !.out = [canDelete |-> canDelete(fn.h, fn.m, fn.snapshots)]]
  /\ UNCHANGED dbVars

\* finished compactions: bounds, input tables, whether seq nums could be
\* zeroed, and the error compact1 has after the version edit
UpdateHintsCalls ==
  { [op |-> "maybeUpdateDeleteCompactionHints", done |-> FALSE, hints |-> h,
     smallest |-> b[1], largest |-> b[2], inputs |-> ins,
     allowedZeroSeqNum |-> z, err |-> e, out |-> [none |-> TRUE]] :
      h \in HintLists, b \in {<<1, MaxKey>>, <<2, 3>>, <<4, 5>>, <<MaxKey, MaxKey>>},
      ins \in {{1}, {2}, {3}, {2, 3}}, z \in BOOLEAN,
      e \in {"nil", "io", "ErrCancelledCompaction"} }

CallMaybeUpdateDeleteCompactionHints ==
  /\ fn.op = "maybeUpdateDeleteCompactionHints" /\ ~fn.done
  /\ LET c == [NullComp EXCEPT !.kind = "Default", !.inputs = fn.inputs,
                               !.smallest = fn.smallest, !.largest = fn.largest,
                               !.allowedZeroSeqNum = fn.allowedZeroSeqNum,
                               !.err = fn.err]
     IN fn' = [fn EXCEPT !.done = TRUE,
                         !.out = [deletionHints |-> HintsAfter(InitFiles, fn.hints, c)]]
  /\ UNCHANGED dbVars

MaxSeqNum == 4
MaxSpanKeys == 3
Suffixes == {3, 4}

\* the range keys a span may hold, and the spans: up to MaxSpanKeys keys of
\* distinct trailers, by descending trailer
RangeKeys ==
  {[seq |-> q, kind |-> k, suffix |-> x] :
     q \in 1..MaxSeqNum, k \in {"RangeKeySet", "RangeKeyUnset"}, x \in Suffixes}
  \cup {[seq |-> q, kind |-> "RangeKeyDelete", suffix |-> NoSuffix] : q \in 1..MaxSeqNum}
SpanKeySets ==
  {S \in {{}} \cup {{a[i] : i \in 1..MaxSpanKeys} : a \in [1..MaxSpanKeys -> RangeKeys]} :
     \A x, y \in S : Trailer(x) = Trailer(y) => x = y}

\* spans over [1, 3), with no table or a table over [2, 3] below the output
TransformCalls ==
  { [op |-> "rangeKeyCompactionTransform", done |-> FALSE, snapshots |-> sn,
     inuseKeyRanges |-> r,
     s |-> [Start |-> 1, End |-> 3, Keys |-> SortKeysByTrailer(S)],
     out |-> [none |-> TRUE]] :
      sn \in {<<>>, <<2>>, <<3>>, <<2, 4>>},
      r \in {<<>>, <<[Start |-> 2, End |-> 3]>>}, S \in SpanKeySets }

CallRangeKeyCompactionTransform ==
  /\ fn.op = "rangeKeyCompactionTransform" /\ ~fn.done
  /\ LET elide == elideRangeKey(FALSE, 0, fn.inuseKeyRanges, fn.s.Start, fn.s.End)
     IN fn' = [fn EXCEPT !.done = TRUE,
                         !.out = rangeKeyCompactionTransform(fn.snapshots, elide, fn.s)]
  /\ UNCHANGED dbVars

MaxTombstones == 3

\* the point tombstones of a compaction, by ascending user key
RECURSIVE AscendingKeys(_, _, _)
AscendingKeys(lo, hi, n) ==
  IF n = 0 THEN {<<>>}
  ELSE {<<>>} \cup {<<k>> \o rest : k \in lo..hi, rest \in AscendingKeys(lo, hi, n - 1)}

NonDecreasing(keys) == \A i \in 1..Len(keys) - 1 : keys[i] <= keys[i + 1]

\* compactions over [smallest, largest] that meet up to MaxTombstones point
\* tombstones; elideTombstoneIndex is the cursor, results the values returned
TombstonesWithin(smallest, largest) ==
  {s \in AscendingKeys(smallest, largest, MaxTombstones) : s # <<>> /\ NonDecreasing(s)}
ElideTombstoneCalls ==
  UNION { { [op |-> "elideTombstone", done |-> FALSE, inuseKeyRanges |-> r,
             smallest |-> b[1], largest |-> b[2], keys |-> ks,
             elideTombstoneIndex |-> 0, results |-> <<>>, indexes |-> <<>>] :
              r \in KeyRangeSets, ks \in TombstonesWithin(b[1], b[2]) } :
          b \in {<<1, MaxKey>>, <<2, 5>>} }

\* one call of elideTombstone, for the next tombstone
CallElideTombstone ==
  /\ fn.op = "elideTombstone" /\ ~fn.done
  /\ LET entire == /\ Len(fn.inuseKeyRanges) > 0
                    /\ fn.inuseKeyRanges[1].Start <= fn.smallest
                    /\ fn.inuseKeyRanges[1].End >= fn.largest
         key == fn.keys[Len(fn.results) + 1]
         r == elideTombstone(entire, 0, fn.inuseKeyRanges, fn.elideTombstoneIndex, key)
     IN fn' = [fn EXCEPT !.elideTombstoneIndex = r.index,
                         !.results = Append(@, r.elide),
                         !.indexes = Append(@, r.index),
                         !.done = (Len(fn.results) + 1 = Len(fn.keys))]
  /\ UNCHANGED dbVars

\* --------------------------------------- runCompaction: the loop over the outputs
\* Keys are the internal keys the compaction iterator hands over, by user key
\* and descending seq num: [kind, userKey, seq, end], end being the end of a
\* RANGEDEL. An output is [smallest, largest, largestExclusive, points,
\* rangeDels, splitKey]. The iterator and the splitters are outside this file.

\* compaction.findGrandparentLimit: from the first grandparent that ends at
\* or after start, the smallest key of the first grandparent that begins
\* after start once more than maxOverlapBytes overlap
RECURSIVE grandparentLimitFrom(_, _, _, _, _, _)
grandparentLimitFrom(grandparents, maxBytes, start, i, overlappedBytes, greater) ==
  IF i > Len(grandparents) THEN NilKey
  ELSE LET bytes == overlappedBytes + grandparents[i].size
           gt == greater \/ grandparents[i].smallest > start
       IN IF gt /\ bytes > maxBytes
            THEN grandparents[i].smallest
            ELSE grandparentLimitFrom(grandparents, maxBytes, start, i + 1, bytes, gt)
findGrandparentLimit(grandparents, maxBytes, start) ==
  LET from == {i \in 1..Len(grandparents) : grandparents[i].largest >= start}
  IN IF from = {} THEN NilKey
     ELSE grandparentLimitFrom(grandparents, maxBytes, start, Min(from), 0, FALSE)

\* compaction.findL0Limit: for a flush, the first flush split key above start
findL0Limit_atOrAbove(startLevel, outputLevel, l0Limits, start) ==
  LET above == {i \in 1..Len(l0Limits) : l0Limits[i] >= start}
  IN IF startLevel > -1 \/ outputLevel # 0 \/ above = {}
       THEN NilKey ELSE l0Limits[Min(above)]
findL0Limit(startLevel, outputLevel, l0Limits, start) ==
  LET above == {i \in 1..Len(l0Limits) : l0Limits[i] > start}
  IN IF startLevel > -1 \/ outputLevel # 0 \/ above = {}
       THEN NilKey ELSE l0Limits[Min(above)]

\* iter.FirstTombstoneStart
FirstTombstoneStart(pending) ==
  IF pending = <<>> THEN NilKey ELSE Min({pending[i].start : i \in 1..Len(pending)})

\* iter.TombstonesUpTo(splitKey): the pending tombstones that start below
\* splitKey, cut at splitKey, and what stays pending. An iterator that does
\* not truncate hands the tombstones over whole.
TombstonesUpTo(pending, splitKey, truncates) ==
  LET Starts(x) == splitKey = NilKey \/ x.start < splitKey
      Later(x)  == ~Starts(x)
      Cut(x)    == IF splitKey # NilKey /\ truncates /\ x.end > splitKey
                     THEN [x EXCEPT !.end = splitKey] ELSE x
      Rest(x)   == [x EXCEPT !.start = splitKey]
      Split(x)  == Starts(x) /\ splitKey # NilKey /\ truncates /\ x.end > splitKey
      started   == SelectSeq(pending, Starts)
      split     == SelectSeq(pending, Split)
  IN [emitted |-> [i \in 1..Len(started) |-> Cut(started[i])],
      pending |-> [i \in 1..Len(split) |-> Rest(split[i])] \o SelectSeq(pending, Later)]

\* compaction.errorOnUserKeyOverlap on the last two files of the version edit
errorOnUserKeyOverlap_never(newFiles) == FALSE
errorOnUserKeyOverlap(newFiles) ==
  LET n == Len(newFiles)
  IN /\ n > 1
     /\ ~newFiles[n - 1].largestExclusive
     /\ newFiles[n - 1].largest >= newFiles[n].smallest

\* finishOutput: the output grew beyond the bounds of the input
grewBeyondBounds_never(meta, smallest, largest) == FALSE
grewBeyondBounds(meta, smallest, largest) ==
  \/ smallest # NilKey /\ meta.smallest < smallest
  \/ largest # NilKey /\ meta.largest > largest

\* finishOutput: a range deletion of the output extends beyond the split key
rangeDelBeyondSplitKey_never(rangeDels, splitKey) == FALSE
rangeDelBeyondSplitKey(rangeDels, splitKey) ==
  /\ splitKey # NilKey /\ rangeDels # <<>>
  /\ Max({rangeDels[i].end : i \in 1..Len(rangeDels)}) > splitKey

\* finishOutput(splitKey) with the point keys written to tw (none: tw is nil)
\* and the pending tombstones: the files of the version edit, the tombstones
\* still pending and the error
finishOutput(points, pending, newFiles, splitKey, truncates, smallest, largest) ==
  LET same == [newFiles |-> newFiles, pending |-> pending, err |-> "nil"]
      up   == TombstonesUpTo(pending, splitKey, truncates)
      rds  == up.emitted
      n    == Len(newFiles) + 1
      rdStart == Min({rds[i].start : i \in 1..Len(rds)})
      rdEnd   == Max({rds[i].end : i \in 1..Len(rds)})
      ptMin   == Min({points[i] : i \in 1..Len(points)})
      ptMax   == Max({points[i] : i \in 1..Len(points)})
      meta == [smallest |-> IF points = <<>> THEN rdStart
                            ELSE IF rds = <<>> THEN ptMin ELSE Min({ptMin, rdStart}),
               largest |-> IF points = <<>> THEN rdEnd
                           ELSE IF rds = <<>> THEN ptMax ELSE Max({ptMax, rdEnd}),
               largestExclusive |-> rds # <<>> /\ (points = <<>> \/ rdEnd > ptMax),
               points |-> points, rangeDels |-> rds, splitKey |-> splitKey]
      ve   == Append(newFiles, meta)
      err == IF n > 1 /\ rds # <<>> /\ rdStart < newFiles[n - 1].largest
               THEN "rangedel start below previous largest"
             ELSE IF /\ n > 1 /\ rds # <<>> /\ rdStart = newFiles[n - 1].largest
                     /\ ~newFiles[n - 1].largestExclusive
               THEN "rangedel start at previous largest"
             ELSE IF rangeDelBeyondSplitKey(rds, splitKey)
               THEN "rangedel beyond split key"
             ELSE IF grewBeyondBounds(meta, smallest, largest)
               THEN "output grew beyond bounds of input"
             ELSE IF errorOnUserKeyOverlap(ve)
               THEN "split user key across two sstables"
             ELSE "nil"
  IN IF /\ points = <<>> /\ splitKey # NilKey
        /\ FirstTombstoneStart(pending) = splitKey
       THEN same
     ELSE IF points = <<>> /\ rds = <<>>
       THEN same
     ELSE [newFiles |-> ve, pending |-> up.pending, err |-> err]

MaxUserKey == 4
MaxPoints == 2

\* the input of a compaction: up to MaxPoints point keys, by user key and
\* descending seq num, and at most one range tombstone, ahead of the point
\* keys from its start key on
PointKeys(ks) ==
  [i \in 1..Len(ks) |-> [kind |-> "SET", userKey |-> ks[i], seq |-> Len(ks) + 1 - i, end |-> NilKey]]
WithRangeDel(pts, s, e) ==
  LET Before(x) == x.userKey < s
      After(x)  == x.userKey >= s
  IN SelectSeq(pts, Before)
       \o <<[kind |-> "RANGEDEL", userKey |-> s, seq |-> MaxPoints + 1, end |-> e]>>
       \o SelectSeq(pts, After)
CompactionInputs ==
  LET pts == {PointKeys(ks) : ks \in {s \in AscendingKeys(1, MaxUserKey, MaxPoints) : NonDecreasing(s)}}
  IN (pts \ {<<>>})
       \cup {WithRangeDel(p, s, e) : p \in pts, s \in 1..MaxUserKey, e \in 2..MaxUserKey + 1}

\* flushes with flush split keys and compactions from L1 to L2 with
\* grandparents, with input bounds [smallest, largest], at the start of the
\* loop of runCompaction
Grandparent(s, e, sz) == [smallest |-> s, largest |-> e, size |-> sz]
OutputLimits ==
  { [startLevel |-> -1, outputLevel |-> 0, l0Limits |-> l, grandparents |-> <<>>] :
      l \in {<<>>, <<3>>, <<2, 4>>} }
  \cup
  { [startLevel |-> 1, outputLevel |-> 2, l0Limits |-> <<>>, grandparents |-> g] :
      g \in {<<Grandparent(1, 2, MaxGrandparentBytes), Grandparent(3, 4, MaxGrandparentBytes)>>,
              <<Grandparent(1, 1, 1), Grandparent(2, 2, 1), Grandparent(4, 5, 1)>>} }
RunCompactionCalls ==
  { [op |-> "runCompaction", done |-> FALSE, smallest |-> b[1], largest |-> b[2],
     startLevel |-> l.startLevel, outputLevel |-> l.outputLevel,
     l0Limits |-> l.l0Limits, grandparents |-> l.grandparents,
     truncates |-> tr, keys |-> ks, pos |-> 1, pending |-> <<>>,
     newFiles |-> <<>>, err |-> "nil"] :
      b \in {<<1, MaxUserKey + 1>>, <<2, MaxUserKey>>}, l \in OutputLimits,
      tr \in BOOLEAN,
      ks \in {k \in CompactionInputs :
                \A i \in 1..Len(k) : k[i].kind = "RANGEDEL" => k[i].userKey < k[i].end} }

\* one iteration of the outer loop of runCompaction on the state f: the keys
\* up to the key before which a splitter asks for a split, then finishOutput;
\* the set holds one state for each place where the output may be cut
outputLoopIteration(f) ==
  LET len      == Len(f.keys)
      firstKey == IF f.pos <= len THEN f.keys[f.pos].userKey
                  ELSE FirstTombstoneStart(f.pending)
      limits   == {findGrandparentLimit(f.grandparents, MaxOverlap, firstKey),
                   findL0Limit(f.startLevel, f.outputLevel, f.l0Limits, firstKey)}
                    \ {NilKey}
      splitterSuggestion == IF limits = {} THEN NilKey ELSE Min(limits)
      atLimit  == {i \in f.pos..len : /\ splitterSuggestion # NilKey
                                      /\ f.keys[i].userKey >= splitterSuggestion}
      limitIdx == IF atLimit = {} THEN len + 1 ELSE Min(atLimit)
      IsPoint(x) == x.kind = "SET"
      IsDel(x)   == x.kind = "RANGEDEL"
      cut(b) ==
        LET read == SubSeq(f.keys, f.pos, b - 1)
            pts  == SelectSeq(read, IsPoint)
            dels == SelectSeq(read, IsDel)
            points  == [i \in 1..Len(pts) |-> pts[i].userKey]
            pending == f.pending \o [i \in 1..Len(dels) |->
                                       [start |-> dels[i].userKey, end |-> dels[i].end]]
            splitKey == IF b <= len /\ (splitterSuggestion = NilKey
                                         \/ splitterSuggestion > f.keys[b].userKey)
                          THEN f.keys[b].userKey ELSE splitterSuggestion
            r == finishOutput(points, pending, f.newFiles, splitKey, f.truncates,
                              f.smallest, f.largest)
        IN [f EXCEPT !.pos = b, !.pending = r.pending,
                     !.newFiles = r.newFiles, !.err = r.err,
                     !.done = (r.err # "nil" \/ (b > len /\ r.pending = <<>>))]
  IN { cut(b) : b \in {c \in f.pos..limitIdx :
                         c = limitIdx \/ \E i \in f.pos..(c - 1) : f.keys[i].kind = "SET"} }

CallRunCompaction ==
  /\ fn.op = "runCompaction" /\ ~fn.done
  /\ fn' \in outputLoopIteration(fn)
  /\ UNCHANGED dbVars

\* ------------------------------------------------ file deletion disablement
\* bounds of the calls on the deletion-disable counter
MaxDisables == 2
MaxDeletionCalls == 5
ObsoleteCandidates == {1, 2}
ObsoleteLogCandidates == {1}

\* the fields of DB.mu that deleteObsoleteFiles reads and writes, with the
\* jobs of the cleanup manager: disableFileDeletions is the reference count,
\* logs are the WALs below minUnflushedLogNum that the log manager still
\* holds, jobs are the enqueued cleanup jobs in order
NoDeletions ==
  [disableFileDeletions |-> 0, obsoleteTables |-> {}, logs |-> {},
   jobs |-> <<>>, panicked |-> FALSE]

\* deleteObsoleteFiles: returns at once while deletions are disabled; else
\* takes the obsolete logs from the log manager, empties the obsolete lists
\* and enqueues one cleanup job when there is a file to delete
deleteObsoleteFiles_ignoringCounter(d) ==
  IF d.obsoleteTables \cup d.logs = {} THEN d
  ELSE [d EXCEPT !.obsoleteTables = {}, !.logs = {},
                 !.jobs = Append(@, [tables |-> d.obsoleteTables, logs |-> d.logs])]
deleteObsoleteFiles(d) ==
  IF d.disableFileDeletions > 0 THEN d
  ELSE IF d.obsoleteTables \cup d.logs = {} THEN d
  ELSE [d EXCEPT !.obsoleteTables = {}, !.logs = {},
                 !.jobs = Append(@, [tables |-> d.obsoleteTables, logs |-> d.logs])]

\* disableFileDeletions: the counter goes up; the wait for the cleanup
\* manager is the guard of the caller's next step
disableFileDeletions_skipped(d) == d
disableFileDeletions(d) == [d EXCEPT !.disableFileDeletions = @ + 1]

\* enableFileDeletions: panics when the counter is not positive, else the
\* counter goes down and the last holder calls deleteObsoleteFiles
enableFileDeletions(d) ==
  IF d.disableFileDeletions <= 0 THEN [d EXCEPT !.panicked = TRUE]
  ELSE LET e == [d EXCEPT !.disableFileDeletions = @ - 1]
       IN IF e.disableFileDeletions > 0 THEN e ELSE deleteObsoleteFiles(e)

\* the calls on one DB, in any order: last is the call made last
FileDeletionCalls ==
  { [op |-> "FileDeletions", d |-> NoDeletions, last |-> "none", calls |-> 0] }

\* a version edit or a flush leaves a table or a WAL obsolete
CallMakeObsolete ==
  /\ fn.op = "FileDeletions" /\ ~fn.d.panicked /\ fn.calls < MaxDeletionCalls
  /\ \E t \in SUBSET ObsoleteCandidates, l \in SUBSET ObsoleteLogCandidates :
       /\ t \cup l # {}
       /\ fn' = [fn EXCEPT !.d.obsoleteTables = @ \cup t, !.d.logs = @ \cup l,
                           !.last = "obsolete", !.calls = @ + 1]
  /\ UNCHANGED dbVars

CallDisableFileDeletions ==
  /\ fn.op = "FileDeletions" /\ ~fn.d.panicked /\ fn.calls < MaxDeletionCalls
  /\ fn.d.disableFileDeletions < MaxDisables
  /\ fn' = [fn EXCEPT !.d = disableFileDeletions(@),
                      !.last = "disableFileDeletions", !.calls = @ + 1]
  /\ UNCHANGED dbVars

CallEnableFileDeletions ==
  /\ fn.op = "FileDeletions" /\ ~fn.d.panicked /\ fn.calls < MaxDeletionCalls
  /\ fn' = [fn EXCEPT !.d = enableFileDeletions(@),
                      !.last = "enableFileDeletions", !.calls = @ + 1]
  /\ UNCHANGED dbVars

CallDeleteObsoleteFiles ==
  /\ fn.op = "FileDeletions" /\ ~fn.d.panicked /\ fn.calls < MaxDeletionCalls
  /\ fn' = [fn EXCEPT !.d = deleteObsoleteFiles(@),
                      !.last = "deleteObsoleteFiles", !.calls = @ + 1]
  /\ UNCHANGED dbVars

FnCalls ==
  FileDeletionCalls \cup RunCompactionCalls \cup ElideTombstoneCalls \cup TransformCalls \cup ElideCalls \cup NewCompactionCalls \cup CheckHintsCalls \cup CanDeleteCalls
    \cup UpdateHintsCalls

FnInit ==
  /\ InitDB
  /\ readOnly = FALSE
  /\ budget = NoBudget
  /\ fn \in FnCalls

FnNext ==
  \/ CallElide
  \/ CallNewCompaction
  \/ CallTryScheduleDeleteOnlyCompaction
  \/ CallCanDelete
  \/ CallMaybeUpdateDeleteCompactionHints
  \/ CallRangeKeyCompactionTransform
  \/ CallElideTombstone
  \/ CallRunCompaction
  \/ CallMakeObsolete
  \/ CallDisableFileDeletions
  \/ CallEnableFileDeletions
  \/ CallDeleteObsoleteFiles

FnSpec == FnInit /\ [][FnNext]_vars

\* runCompaction alone, on its own goroutine with DB.mu released: the
\* goroutine keeps running, so the loop takes its next iteration as long as it
\* has not ended. This is weak fairness of CallRunCompaction, whose enabling
\* condition is written out as the loop not having ended (C37 checks that an
\* iteration is possible in every such state)
RunCompactionInit ==
  /\ InitDB
  /\ readOnly = FALSE
  /\ budget = NoBudget
  /\ fn \in RunCompactionCalls
RunCompactionSpec ==
  /\ RunCompactionInit /\ [][CallRunCompaction]_vars
  /\ ([]<>(fn.done) \/ []<><<CallRunCompaction>>_vars)

\* ================================================================ Checkpoint
\* DB.Checkpoint next to the version edits of a running DB. fn holds the
\* options of the call, the version set, the destination directory and the
\* locals of Checkpoint and of its link-or-copy goroutines.
MaxCkFaults == 1
MaxEdits == 2
\* the callers that hold file deletions disabled when Checkpoint is called
MaxOtherHolders == 1

\* the tables by file number: 2 and 3 are virtual and share backing 7
CkFile(l, s, e, v, b) == [level |-> l, smallest |-> s, largest |-> e, virtual |-> v, backing |-> b]
CkFiles ==
  [f \in 1..5 |-> CASE f = 1 -> CkFile(0, 1, 2, FALSE, 1)
                    [] f = 2 -> CkFile(5, 3, 4, TRUE, 7)
                    [] f = 3 -> CkFile(5, 5, 6, TRUE, 7)
                    [] f = 4 -> CkFile(6, 1, 2, TRUE, 8)
                    [] f = 5 -> CkFile(1, 1, 2, FALSE, 5)]
\* current.Levels[l].Iter() for l = 0, 1, ...: the tables of v in that order
LevelOrder(v) ==
  LET In(f) == f \in v IN SelectSeq(<<1, 5, 2, 3, 4>>, In)

\* the records of the manifest: the snapshot written at Open, a compaction
\* of table 1 into table 5, the deletion of table 4 with its backing
CkEdit(del, new, created, removed) ==
  [deleted |-> del, added |-> new, createdBackings |-> created, removedBackings |-> removed]
CkEdits(protected) ==
  <<CkEdit({}, {1, 2, 3, 4}, {7, 8} \cup protected, {}),
    CkEdit({1}, {5}, {}, {}),
    CkEdit({4}, {}, {}, {8})>>
\* the version and the virtual backings a manifest describes
RECURSIVE Replay(_)
Replay(records) ==
  IF records = <<>> THEN [version |-> {}, virtualBackings |-> {}]
  ELSE LET before == Replay(SubSeq(records, 1, Len(records) - 1))
           e == records[Len(records)]
       IN [version |-> (before.version \ e.deleted) \cup e.added,
           virtualBackings |-> (before.virtualBackings \cup e.createdBackings) \ e.removedBackings]

\* excludeFromCheckpoint
excludeFromCheckpoint(f, restrictToSpans) ==
  IF Len(restrictToSpans) = 0 THEN FALSE
  ELSE ~\E i \in 1..Len(restrictToSpans) :
          f.smallest < restrictToSpans[i].end /\ f.largest >= restrictToSpans[i].start

\* the backings required by the virtual tables of the checkpoint, with f
markRequired_never(f, required) == required
markRequired(f, required) ==
  IF f.virtual THEN required \cup {f.backing} ELSE required

\* Checkpoint reads the version set once it holds DB.mu and the manifest lock
captureAllowed_withoutLogLock(mutex, logLock) == mutex = "free"
captureAllowed(mutex, logLock) == mutex = "free" /\ logLock = "free"

\* the version edit writeCheckpointManifest appends to the copied records
syntheticEdit(excludedFiles, removeBackingTables) ==
  IF excludedFiles # {}
    THEN <<CkEdit(excludedFiles, {}, {}, removeBackingTables)>>
    ELSE <<>>

\* the destination before the call: absent, or a directory with a file
ExistingDest(exists) ==
  [exists |-> exists, entries |-> IF exists THEN {"other"} ELSE {}, tables |-> {}]

CheckpointCalls ==
  { [op |-> "Checkpoint",
     restrictToSpans |-> spans, concurrentLinkOrCopy |-> n, remote |-> rem,
     mutex |-> "free", logLock |-> "free", applier |-> "idle",
     edits |-> CkEdits(prot), manifest |-> SubSeq(CkEdits(prot), 1, 1),
     version |-> {1, 2, 3, 4}, virtualBackings |-> {7, 8} \cup prot,
     pc |-> "stat",
     captured |-> [version |-> {}, manifestSize |-> 0, virtualBackings |-> {}, logs |-> {}],
     d |-> [NoDeletions EXCEPT !.disableFileDeletions = o], others |-> o,
     queueLogs |-> {1, 2}, deleted |-> [tables |-> {}, logs |-> {}],
     began |-> FALSE, ckErr |-> "nil", result |-> "nil", hasFailedLinkOrCopy |-> FALSE,
     idx |-> 1, excludedFiles |-> {}, requiredVirtualBackingFiles |-> {},
     remoteFiles |-> {}, removeBackingTables |-> {}, tasks |-> {}, started |-> <<>>,
     dest |-> ExistingDest(ex),
     destManifest |-> [records |-> <<>>, synthetic |-> <<>>],
     faults |-> MaxCkFaults] :
       spans \in {<<>>, <<[start |-> 3, end |-> 6]>>,
                  <<[start |-> 1, end |-> 2], [start |-> 4, end |-> 5]>>},
       n \in 1..2, rem \in {{}, {8}}, prot \in {{}, {9}}, ex \in BOOLEAN,
       o \in 0..MaxOtherHolders }

Ck == fn.op = "Checkpoint"

\* a flush or compaction takes the manifest lock, holding DB.mu
ApplyBegin ==
  /\ Ck /\ fn.applier = "idle"
  /\ Len(fn.manifest) <= MaxEdits /\ Len(fn.manifest) < Len(fn.edits)
  /\ fn.mutex = "free" /\ fn.logLock = "free"
  /\ fn' = [fn EXCEPT !.applier = "locked", !.mutex = "apply", !.logLock = "apply"]
  /\ UNCHANGED dbVars

\* logAndApply releases DB.mu and appends the version edit to the manifest
ApplyWrite ==
  /\ Ck /\ fn.applier = "locked"
  /\ fn' = [fn EXCEPT !.applier = "written", !.mutex = "free",
                      !.manifest = Append(@, fn.edits[Len(@) + 1])]
  /\ UNCHANGED dbVars

\* the backing files of a version and its virtual backings
Backings(v, virtualBackings) == {CkFiles[f].backing : f \in v} \cup virtualBackings

\* logAndApply takes DB.mu again, installs the new version and releases the
\* manifest lock; the backing files the new version no longer uses are
\* obsolete
ApplyInstall ==
  /\ Ck /\ fn.applier = "written" /\ fn.mutex = "free"
  /\ LET now == Replay(fn.manifest)
     IN fn' = [fn EXCEPT !.applier = "installed", !.logLock = "free", !.mutex = "apply",
                         !.version = now.version,
                         !.virtualBackings = now.virtualBackings,
                         !.d.obsoleteTables =
                            @ \cup (Backings(fn.version, fn.virtualBackings)
                                      \ Backings(now.version, now.virtualBackings))]
  /\ UNCHANGED dbVars

\* the compaction calls deleteObsoleteFiles and releases DB.mu
ApplyDeleteObsoleteFiles ==
  /\ Ck /\ fn.applier = "installed"
  /\ fn' = [fn EXCEPT !.applier = "idle", !.mutex = "free", !.d = deleteObsoleteFiles(@)]
  /\ UNCHANGED dbVars

\* a flush of the oldest memtable: its WAL leaves the queue, the log manager
\* holds it as obsolete, and flush1 calls deleteObsoleteFiles
FlushObsoletesLog ==
  /\ Ck /\ fn.mutex = "free" /\ 1 \in fn.queueLogs
  /\ fn' = [fn EXCEPT !.queueLogs = @ \ {1},
                      !.d = deleteObsoleteFiles([@ EXCEPT !.logs = @ \cup {1}])]
  /\ UNCHANGED dbVars

\* the cleanup manager runs its oldest job: the files are deleted or recycled
CleanupJob ==
  /\ Ck /\ fn.d.jobs # <<>>
  /\ fn' = [fn EXCEPT !.d.jobs = Tail(@),
                      !.deleted = [tables |-> @.tables \cup fn.d.jobs[1].tables,
                                   logs |-> @.logs \cup fn.d.jobs[1].logs]]
  /\ UNCHANGED dbVars

\* another holder of the deletion disablement calls enableFileDeletions
OtherEnableFileDeletions ==
  /\ Ck /\ fn.mutex = "free" /\ fn.others > 0
  /\ fn' = [fn EXCEPT !.others = @ - 1, !.d = enableFileDeletions(@)]
  /\ UNCHANGED dbVars

\* an external call returns an error
CkFails(pc, err) ==
  /\ fn.pc = pc /\ fn.faults > 0
  /\ fn' = [fn EXCEPT !.faults = @ - 1, !.ckErr = err, !.pc = "return"]

\* FS.Stat(destDir): Checkpoint returns an error when the directory exists
CkStat_withoutStat ==
  /\ Ck /\ fn.pc = "stat"
  /\ fn' = [fn EXCEPT !.pc = "disable"]
  /\ UNCHANGED dbVars
CkStat ==
  /\ Ck /\ fn.pc = "stat"
  /\ IF fn.dest.exists
       THEN fn' = [fn EXCEPT !.pc = "returned", !.result = "exists"]
       ELSE fn' = [fn EXCEPT !.pc = "disable"]
  /\ UNCHANGED dbVars

\* d.mu.Lock(); d.disableFileDeletions(), which registers the deferred
\* enableFileDeletions
CkDisableFileDeletions ==
  /\ Ck /\ fn.pc = "disable" /\ fn.mutex = "free"
  /\ fn' = [fn EXCEPT !.pc = "capture", !.d = disableFileDeletions(@)]
  /\ UNCHANGED dbVars

\* cleanupManager.Wait() has returned; the critical section of Checkpoint,
\* then log.manager.List
CkCapture ==
  /\ Ck /\ fn.pc = "capture" /\ fn.d.jobs = <<>>
  /\ captureAllowed(fn.mutex, fn.logLock)
  /\ \/ fn' = [fn EXCEPT !.pc = "mkdir",
                         !.captured = [version |-> fn.version,
                                       manifestSize |-> Len(fn.manifest),
                                       virtualBackings |-> fn.virtualBackings,
                                       logs |-> fn.queueLogs]]
     \/ /\ fn.faults > 0
        /\ fn' = [fn EXCEPT !.faults = @ - 1, !.pc = "enable", !.result = "list",
                            !.captured = [version |-> fn.version,
                                          manifestSize |-> Len(fn.manifest),
                                          virtualBackings |-> fn.virtualBackings,
                                          logs |-> fn.queueLogs]]
  /\ UNCHANGED dbVars

\* mkdirAllAndSyncParents, the OPTIONS file and the format version marker
CkMkdir ==
  /\ Ck /\ fn.pc = "mkdir"
  /\ \/ fn' = [fn EXCEPT !.began = TRUE, !.pc = "tables",
                         !.dest = [exists |-> TRUE, entries |-> {"OPTIONS", "marker.format"},
                                   tables |-> {}]]
     \/ /\ fn.faults > 0
        /\ \E made \in BOOLEAN, names \in {{}, {"OPTIONS"}} :
             /\ ~made => names = {}
             /\ fn' = [fn EXCEPT !.began = TRUE, !.faults = @ - 1, !.ckErr = "io",
                                 !.pc = "return",
                                 !.dest = [exists |-> made, entries |-> names, tables |-> {}]]
  /\ UNCHANGED dbVars

\* one iteration of the loop over the tables of the captured version
CkTable ==
  /\ Ck /\ fn.pc = "tables"
  /\ LET order == LevelOrder(fn.captured.version)
     IN IF fn.idx > Len(order)
          THEN fn' = [fn EXCEPT !.pc = "wait"]
          ELSE LET num == order[fn.idx]
                   f == CkFiles[num]
                   required == markRequired(f, fn.requiredVirtualBackingFiles)
               IN IF excludeFromCheckpoint(f, fn.restrictToSpans)
                    THEN fn' = [fn EXCEPT !.excludedFiles = @ \cup {num}, !.idx = @ + 1]
                  ELSE IF f.virtual /\ f.backing \in fn.requiredVirtualBackingFiles
                    THEN fn' = [fn EXCEPT !.idx = @ + 1]
                  ELSE \/ /\ fn.faults > 0
                          /\ fn' = [fn EXCEPT !.faults = @ - 1, !.ckErr = "lookup",
                                              !.requiredVirtualBackingFiles = required,
                                              !.pc = "return"]
                       \/ /\ f.backing \in fn.remote
                          /\ fn' = [fn EXCEPT !.requiredVirtualBackingFiles = required,
                                              !.remoteFiles = @ \cup {f.backing},
                                              !.idx = @ + 1]
                       \/ /\ f.backing \notin fn.remote
                          /\ Cardinality(fn.tasks) < fn.concurrentLinkOrCopy
                          /\ fn' = [fn EXCEPT !.requiredVirtualBackingFiles = required,
                                              !.tasks = @ \cup {f.backing},
                                              !.started = Append(@, f.backing),
                                              !.idx = @ + 1,
                                              !.pc = IF fn.hasFailedLinkOrCopy
                                                       THEN "wait" ELSE "tables"]
  /\ UNCHANGED dbVars

\* a link-or-copy goroutine: LinkOrCopy into the destination directory
CkLinkOrCopy ==
  /\ Ck
  /\ \E t \in fn.tasks :
       \/ /\ fn.dest.exists /\ t \notin fn.deleted.tables
          /\ fn' = [fn EXCEPT !.tasks = @ \ {t}, !.dest.tables = @ \cup {t}]
       \/ /\ ~fn.dest.exists \/ t \in fn.deleted.tables \/ fn.faults > 0
          /\ fn' = [fn EXCEPT !.tasks = @ \ {t},
                              !.faults = IF fn.dest.exists /\ t \notin fn.deleted.tables
                                           THEN @ - 1 ELSE @,
                              !.hasFailedLinkOrCopy = TRUE,
                              !.ckErr = IF fn.hasFailedLinkOrCopy THEN @ ELSE "link"]
  /\ UNCHANGED dbVars

\* Checkpoint fills the channel: every goroutine has finished
CkWait ==
  /\ Ck /\ fn.pc = "wait" /\ fn.tasks = {}
  /\ IF fn.hasFailedLinkOrCopy
       THEN fn' = [fn EXCEPT !.pc = "return"]
       ELSE fn' = [fn EXCEPT !.pc = "manifest",
                             !.removeBackingTables =
                                fn.captured.virtualBackings \ fn.requiredVirtualBackingFiles]
  /\ UNCHANGED dbVars

\* writeCheckpointManifest
writeCheckpointManifest ==
  /\ Ck /\ fn.pc = "manifest"
  /\ \/ fn' = [fn EXCEPT !.pc = "wal",
                         !.destManifest =
                            [records |-> SubSeq(fn.manifest, 1, fn.captured.manifestSize),
                             synthetic |-> syntheticEdit(fn.excludedFiles, fn.removeBackingTables)],
                         !.dest.entries = @ \cup {"MANIFEST", "marker.manifest"}]
     \/ CkFails("manifest", "io")
  /\ UNCHANGED dbVars

\* CheckpointState for the remote tables, the copy of the WAL segments, the
\* sync and the close of the directory
CkFinish ==
  /\ Ck /\ fn.pc = "wal"
  /\ \/ /\ fn.captured.logs \cap fn.deleted.logs = {}
        /\ fn' = [fn EXCEPT !.pc = "return", !.dest.entries = @ \cup {"WAL"}]
     \/ /\ fn.captured.logs \cap fn.deleted.logs # {}
        /\ fn' = [fn EXCEPT !.ckErr = "log not found", !.pc = "return"]
     \/ CkFails("wal", "io")
  /\ UNCHANGED dbVars

\* the deferred cleanup: RemoveAll(destDir) when ckErr is set. RemoveAll
\* unlinks the entries it finds, then the directory
CkReturn ==
  /\ Ck /\ fn.pc = "return"
  /\ IF fn.ckErr = "nil"
       THEN fn' = [fn EXCEPT !.pc = "enable"]
       ELSE fn' = [fn EXCEPT !.pc = "removeAll", !.result = fn.ckErr,
                             !.dest.entries = {}, !.dest.tables = {}]
  /\ UNCHANGED dbVars

\* the error of RemoveAll is dropped
CkRemoveAll ==
  /\ Ck /\ fn.pc = "removeAll"
  /\ fn' = [fn EXCEPT !.pc = "enable",
                      !.dest.exists = IF fn.dest.entries = {} /\ fn.dest.tables = {}
                                        THEN FALSE ELSE @]
  /\ UNCHANGED dbVars

\* the deferred d.mu.Lock(); d.enableFileDeletions(); d.mu.Unlock()
CkEnableFileDeletions ==
  /\ Ck /\ fn.pc = "enable" /\ fn.mutex = "free"
  /\ fn' = [fn EXCEPT !.pc = "returned", !.d = enableFileDeletions(@)]
  /\ UNCHANGED dbVars

CkInit == InitDB /\ readOnly = FALSE /\ budget = NoBudget /\ fn \in CheckpointCalls
CkNext ==
  \/ ApplyBegin \/ ApplyWrite \/ ApplyInstall \/ ApplyDeleteObsoleteFiles
  \/ FlushObsoletesLog \/ CleanupJob \/ OtherEnableFileDeletions
  \/ CkDisableFileDeletions \/ CkEnableFileDeletions
  \/ CkStat \/ CkCapture \/ CkMkdir \/ CkTable \/ CkLinkOrCopy \/ CkWait
  \/ writeCheckpointManifest \/ CkFinish \/ CkReturn \/ CkRemoveAll
CheckpointSpec == CkInit /\ [][CkNext]_vars

\* a goroutine id is always free for a new goroutine
JobsSuffice == \E k \in JobIds : comp[k].pc = "none"
TypeOK ==
  /\ mu \in JobIds \cup {NoJob} /\ logHolder \in JobIds \cup {NoJob}
  /\ nextFileNum <= MaxFileNum + 1
  /\ inProgress \subseteq JobIds

\* ------------------------------------------------------------------ claims
WaitingToApply(c) == c.pc \in {"c_apply", "c_applywait"}
HoldsMarkers(c) ==
  c.pc \in {"c_start", "c_io", "c_copy", "c_apply", "c_applywait", "c_applying", "c_post"}
IngestFlushApplying(c) == c.pc = "f_applying" /\ c.kind = "IngestedFlushable"

\* C1: when compact1 takes the manifest lock to apply its edit and the cancel
\* flag of the compaction is set, compact1 returns ErrCancelledCompaction,
\* logAndApply is not called (the version is unchanged) and the manifest lock
\* is released
C1_CancelledAtApply ==
  [][\A j \in JobIds :
       (/\ WaitingToApply(comp[j]) /\ comp[j].cancel
        /\ ~WaitingToApply(comp'[j]))
       => /\ comp'[j].pc = "c_post"
          /\ comp'[j].err = "ErrCancelledCompaction"
          /\ logHolder' = NoJob
          /\ version' = version]_vars

\* a compaction whose runner succeeded was cancelled under the manifest lock
C1_Witness ==
  \E j \in JobIds : /\ comp[j].pc = "c_post" /\ comp[j].cancel
                    /\ comp[j].runErr = "nil"
                    /\ comp[j].err = "ErrCancelledCompaction"

\* C2: while the flush of an ingested flushable with a valid excise span
\* applies its edit, it holds the manifest lock and every other in-progress
\* compaction whose key range overlaps the excise span has its cancel flag
\* set; and no compaction whose cancel flag is set is applying an edit
C2_ExciseCancelsOverlapping ==
  /\ \A f \in JobIds :
       (IngestFlushApplying(comp[f]) /\ exciseSpanValid(queue[1]))
       => /\ logHolder = f
          /\ \A c2 \in inProgress \ {f} :
               OverlapsInternalKeyRange(queue[1].exciseStart, queue[1].exciseEnd,
                                        comp[c2].smallest, comp[c2].largest)
               => comp[c2].cancel
  /\ \A j \in JobIds : comp[j].pc = "c_applying" => ~comp[j].cancel

\* an excise is being applied while a compaction that overlaps it has not yet
\* reached its own apply step
C2_Witness ==
  \E f \in JobIds, c2 \in JobIds :
     /\ IngestFlushApplying(comp[f]) /\ exciseSpanValid(queue[1])
     /\ c2 \in inProgress /\ comp[c2].pc \in {"c_io", "c_apply"}
     /\ OverlapsInternalKeyRange(queue[1].exciseStart, queue[1].exciseEnd,
                                 comp[c2].smallest, comp[c2].largest)
     /\ comp[c2].cancel

\* C3 as stated: no table is an input of two compactions of the in-progress
\* set, and addInProgressCompaction never meets a table that is already
\* compacting
C3_NoSharedInputInProgress ==
  /\ ~fatal
  /\ \A j \in inProgress, k \in inProgress :
       j # k => comp[j].inputs \cap comp[k].inputs = {}

\* C3, amended: a compaction of the in-progress set that has not yet called
\* clearCompactingState has every input in the Compacting state, no two such
\* compactions share an input, and addInProgressCompaction never meets a table
\* that is already compacting
C3_NoSharedCompactingInput ==
  /\ ~fatal
  /\ \A j \in inProgress :
       HoldsMarkers(comp[j]) => \A f \in comp[j].inputs : files[f].state = "Compacting"
  /\ \A j \in inProgress, k \in inProgress :
       (j # k /\ HoldsMarkers(comp[j]) /\ HoldsMarkers(comp[k]))
       => comp[j].inputs \cap comp[k].inputs = {}

\* two compactions run at once, and a table the second could have used is an
\* input of the first
C3_Witness ==
  \E j \in inProgress, k \in inProgress :
     /\ j # k /\ HoldsMarkers(comp[j]) /\ HoldsMarkers(comp[k])
     /\ comp[j].inputs # {} /\ comp[k].inputs # {}
     /\ \E f \in comp[j].inputs : f \in DownloadFiles

\* C4: when compact1 or flush1 reaches clearCompactingState with an error
\* (from the runner, a cancellation or the apply step), every input of the
\* compaction is NotCompacting afterwards and its IsIntraL0Compacting is clear
C4_RollbackOnError ==
  [][\A j \in JobIds :
       (/\ comp[j].pc \in {"c_post", "f_post"} /\ comp[j].err # "nil"
        /\ comp'[j].pc # comp[j].pc)
       => \A f \in comp[j].inputs :
            files'[f].state = "NotCompacting" /\ ~files'[f].intraL0]_vars

\* an intra-L0 compaction ended with an error and was rolled back
C4_Witness ==
  \E j \in JobIds :
     /\ comp[j].pc \in {"c_clear", "c_clearwait"} /\ comp[j].err # "nil"
     /\ comp[j].inputs # {}
     /\ \A f \in comp[j].inputs : files[f].state = "NotCompacting"
     /\ \E f \in comp[j].inputs : files[f].level = 0 /\ comp[j].outLevel = 0

AfterClear(c) == c.pc \in {"c_clear", "c_clearwait", "f_clear", "f_clearwait"}

\* C5 as stated: once compact1 or flush1 has handled an error of the runner,
\* every table the compaction created is in the obsolete-table list, or is
\* already gone from storage: none is left on storage untracked
C5_OutputsTrackedOnRunnerError ==
  \A j \in JobIds :
    (AfterClear(comp[j]) /\ comp[j].runErr # "nil")
    => \A f \in comp[j].created : f \in Range(obsoleteTables) \/ f \notin objects

\* C6: while logAndApply runs for a compaction or a flush, every output is
\* closed and durable; and after a failed apply every pending output is out of
\* the version and in the obsolete-table list (or already deleted through it)
C6_ApplyAfterSync ==
  /\ \A j \in JobIds :
       comp[j].pc \in {"c_applying", "f_applying"}
       => comp[j].tw = NoFileNum /\ comp[j].pending \subseteq durable
  /\ \A j \in JobIds :
       (AfterClear(comp[j]) /\ comp[j].runErr = "nil" /\ comp[j].err = "io")
       => \A f \in comp[j].pending :
            f \notin version /\ (f \in Range(obsoleteTables) \/ f \notin objects)

\* the apply step of a compaction with an output failed and the output is
\* queued for deletion
C6_Witness ==
  \E j \in JobIds :
     /\ AfterClear(comp[j]) /\ comp[j].runErr = "nil" /\ comp[j].err = "io"
     /\ comp[j].pending # {}
     /\ comp[j].pending \subseteq Range(obsoleteTables)

\* C7: the counters never exceed the configured limits
C7_WithinLimits ==
  /\ compactingCount <= MaxConcurrentCompactions
  /\ downloadingCount <= MaxConcurrentDownloads

\* both limits are reached while a scheduling pass has a manual compaction
\* waiting
C7_Witness ==
  /\ compactingCount = MaxConcurrentCompactions
  /\ downloadingCount = MaxConcurrentDownloads
  /\ Len(manual) > 0
  /\ \E j \in JobIds : comp[j].pc \in {"s_locked", "s_downloads"}

\* C8: from a state in which the DB is closed or read-only no step starts a
\* flush, a compaction or a download
C8_NoLaunchWhenClosed ==
  [][(closed \/ readOnly)
     => /\ \A k \in JobIds :
             comp'[k].pc \in {"c_start", "f_start"} => comp[k].pc = comp'[k].pc
        /\ compactingCount' <= compactingCount
        /\ downloadingCount' <= downloadingCount]_vars

\* the DB was closed while a scheduling pass waited for the manifest lock, and
\* the pass now holds the lock
C8_Witness ==
  /\ closed
  /\ \E j \in JobIds : comp[j].pc = "s_locked" /\ logHolder = j

IsFlushJob(c) ==
  \/ c.pc \in {"f_start", "f_lock", "f_lockwait", "f_applying", "f_post",
               "f_clear", "f_clearwait", "f_tail0", "f_tail"}
  \/ c.pc = "c_io" /\ c.kind = "Flush"
FlushJobs(cs) == {k \in JobIds : IsFlushJob(cs[k])}

\* C9: after every step there is at most one flush goroutine, the flushing
\* flag is set exactly when there is one, and when the flush goroutine leaves
\* flush the flag says whether maybeScheduleFlush found more to flush
C9_OneFlush ==
  [][/\ Cardinality(FlushJobs(comp')) <= 1
     /\ flushing' <=> FlushJobs(comp') # {}
     /\ \A j \in JobIds :
          (comp[j].pc \in {"f_tail0", "f_tail"} /\ comp'[j].pc = "s_start")
          => (flushing' <=> ShouldFlush(FALSE, closed', readOnly', queue'))]_vars

\* a flush is in flight while a memtable it does not flush is ready
C9_Witness ==
  \E j \in JobIds :
     /\ IsFlushJob(comp[j]) /\ comp[j].pc = "f_applying" /\ flushing
     /\ Len(queue) > comp[j].n + 1
     /\ queue[comp[j].n + 1].ready

\* a scheduling pass gives up on the head of the manual queue in this step
HeadCannotRun(j) ==
  /\ Len(manual) > 0 /\ ~closed /\ ~readOnly
  /\ \/ comp[j].pc = "s_start" /\ comp'[j].pc = "none"
     \/ comp[j].pc = "s_locked" /\ comp'[j].pc = "s_downloads"
     \/ comp[j].pc = "s_manual" /\ comp'[j].pc = "s_auto"

\* C10 as stated: when a scheduling pass cannot run the head of the manual
\* queue, the head stays where it is and its retry counter is incremented
C10_HeadRetried ==
  [][\A j \in JobIds :
       HeadCannotRun(j)
       => /\ Len(manual') = Len(manual)
          /\ manual'[1].id = manual[1].id
          /\ manual'[1].retries = manual[1].retries + 1]_vars

\* a flush between addInProgressCompaction and the removal of its flushables
\* from the queue
InFlightFlush(j) ==
  j \in inProgress /\ comp[j].kind \in {"Flush", "IngestedFlushable"}

\* C11: every flush in flight flushes a non-empty prefix queue[1..n] that
\* leaves out the last (mutable) entry; an ingested flushable is in the prefix
\* only as its single entry; every memtable of the prefix is ready; every
\* flushed entry has a log number below that of the entry after the prefix,
\* which is the minimum unflushed log number of the edit and, once the edit
\* is applied, of the version set
C11_FlushInputPrefix ==
  \A j \in JobIds :
    InFlightFlush(j) =>
      LET n == comp[j].n IN
      /\ n >= 1 /\ n <= Len(queue) - 1
      /\ \A i \in 1..n : queue[i].kind = "ingest" => (n = 1 /\ i = 1)
      /\ \A i \in 1..n : queue[i].kind = "mem" => queue[i].ready
      /\ \A i \in 1..n : queue[i].logNum < queue[n + 1].logNum
      /\ comp[j].minUnflushedLogNum = queue[n + 1].logNum
      /\ (comp[j].pc \in {"f_post", "f_clear", "f_clearwait"} /\ comp[j].err = "nil")
           => minUnflushedLogNum = queue[n + 1].logNum

\* a flush of two memtables has applied its edit while a third immutable
\* memtable waits behind them
C11_Witness ==
  \E j \in JobIds :
    /\ InFlightFlush(j) /\ comp[j].n = 2 /\ comp[j].pc = "f_post"
    /\ comp[j].err = "nil" /\ minUnflushedLogNum = 3

\* a flush of memtables whose run succeeded without an output table, from
\* the apply step on
EmptyFlush(c) ==
  /\ c.kind = "Flush" /\ c.runErr = "nil" /\ c.newFiles = {}
  /\ c.pc \in {"f_applying", "f_post", "f_clear", "f_clearwait", "f_tail0"}

\* C12: a flush whose run produced no table calls logAndApply with no error
\* and errEmptyTable in the event; unless the apply itself fails, the minimum
\* unflushed log number is advanced, flush1 returns no error, the flushed
\* memtables have left the queue when it returns, and the event still carries
\* errEmptyTable; every flushable that left the queue is marked flushed by
\* the time flush1 has returned
C12_EmptyFlushSucceeds ==
  /\ \A j \in JobIds :
       EmptyFlush(comp[j]) =>
         LET c == comp[j] IN
         /\ c.pc = "f_applying" => (c.err = "nil" /\ c.infoErr = "errEmptyTable")
         /\ c.err # "nil" => (c.err = "io" /\ c.infoErr = "io" /\ c.flushed = {})
         /\ (c.pc # "f_applying" /\ c.err = "nil")
              => /\ c.infoErr = "errEmptyTable"
                 /\ minUnflushedLogNum = c.minUnflushedLogNum
         /\ (c.pc = "f_tail0" /\ c.err = "nil")
              => /\ c.flushed # {}
                 /\ queue[1].logNum = c.minUnflushedLogNum
                 /\ \A i \in 1..Len(queue) : queue[i].logNum \notin c.flushed
  /\ \A ln \in 1..(queue[1].logNum - 1) :
       \/ ln \in flushedLogNums
       \/ \E j \in JobIds : comp[j].pc = "f_tail0" /\ ln \in comp[j].flushed

\* flush1 is about to return nil for a flush that wrote no table
C12_Witness ==
  \E j \in JobIds :
    /\ EmptyFlush(comp[j]) /\ comp[j].pc = "f_tail0" /\ comp[j].err = "nil"
    /\ comp[j].infoErr = "errEmptyTable" /\ comp[j].flushed # {}

\* C13: a flush (len(c.flushing) != 0) gets false from elideTombstone,
\* elideRangeTombstone and elideRangeKey whatever the arguments, its
\* allowedZeroSeqNum is false, and its maybeUpdateDeleteCompactionHints leaves
\* the deletion hints as they were
C13_FlushNeverElides ==
  (fn.op = "elide" /\ fn.done /\ fn.flushingLen # 0) =>
     /\ ~fn.out.elideTombstone
     /\ ~fn.out.elideRangeTombstone
     /\ ~fn.out.elideRangeKey
     /\ ~fn.out.allowedZeroSeqNum
     /\ fn.out.hints = fn.hints

\* a flush over an empty LSM, where the same call of a compaction elides
C13_Witness ==
  /\ fn.op = "elide" /\ fn.done /\ fn.flushingLen = 2 /\ ~fn.disableSpanElision
  /\ fn.inuseKeyRanges = <<>> /\ fn.start = 2 /\ fn.end = 6
  /\ fn.out.hints = <<Hint2, Hint1>>

\* the picked compaction of the call meets the four conditions named for a
\* conversion, and its start-level table must migrate to shared storage
FourConditions ==
  /\ fn.pcKind = "Default" /\ fn.startLen = 1 /\ fn.outputEmpty
  /\ fn.grandparentsSize <= MaxOverlap
MustMigrate == ~fn.isRemote /\ ShouldCreateShared(fn.outputLevel)
ConvertedKind ==
  IF ~MustMigrate THEN "Move" ELSE IF ~fn.virtual THEN "Copy" ELSE "Default"

\* C14 as stated: newCompaction converts exactly when the kind is Default,
\* there is one start-level table, the output level is empty and the
\* grandparent bytes are within maxOverlapBytes
C14_ConvertsOnFourConditions ==
  (fn.op = "newCompaction" /\ fn.done) =>
     fn.out.kind = IF FourConditions THEN ConvertedKind ELSE fn.pcKind

\* C14: newCompaction converts exactly when, besides the four conditions, no
\* intermediate level of a multi-level compaction holds data; it then becomes
\* Move if the table need not migrate, Copy if it must and is not virtual,
\* and stays Default if it must and is virtual
C14_ConvertsUnlessExtraLevelData ==
  (fn.op = "newCompaction" /\ fn.done) =>
     fn.out.kind = IF FourConditions /\ (fn.extraLevels = <<>> \/ fn.extraLevels[1] = {})
                     THEN ConvertedKind
                     ELSE fn.pcKind

\* a multi-level compaction with an empty intermediate level becomes a copy
C14_Witness ==
  /\ fn.op = "newCompaction" /\ fn.done /\ FourConditions
  /\ fn.extraLevels = <<{}>> /\ MustMigrate /\ ~fn.virtual
  /\ fn.out.kind = "Copy"

\* no snapshot separates the sequence numbers a and b
SameStripe(snaps, a, b) ==
  ~\E i \in 1..Len(snaps) : /\ snaps[i] > Min({a, b}) /\ snaps[i] <= Max({a, b})
HintInOneStripe(snaps, h) ==
  SameStripe(snaps, h.tombstoneLargestSeqNum, h.fileSmallestSeqNum)

\* C15: the hints left by tryScheduleDeleteOnlyCompaction are, in their
\* order, the hints whose tombstone largest seq num and file smallest seq num
\* lie in different snapshot stripes; a hint in one stripe is removed whether
\* or not it selects a table; a delete-only compaction is launched only when
\* a table was selected, and over the selected tables
C15_ResolvableHintsRemoved ==
  (fn.op = "tryScheduleDeleteOnlyCompaction" /\ fn.done) =>
     LET Separated(h) == ~HintInOneStripe(fn.snapshots, h)
     IN /\ fn.out.deletionHints = SelectSeq(fn.hints, Separated)
        /\ fn.out.launched # {} => fn.out.inputs # {}
        /\ \A c \in fn.out.launched : c.kind = "DeleteOnly" /\ c.inputs = fn.out.inputs
        /\ \A f \in fn.out.inputs :
             \E i \in 1..Len(fn.hints) : HintInOneStripe(fn.snapshots, fn.hints[i])

\* a resolvable hint that selects no table is removed, the unresolvable hint
\* behind it is kept, and nothing is launched
C15_Witness ==
  /\ fn.op = "tryScheduleDeleteOnlyCompaction" /\ fn.done
  /\ fn.hints = <<Hint3, Hint1>> /\ fn.snapshots = <<5>>
  /\ fn.out.deletionHints = <<Hint1>> /\ fn.out.launched = {}

\* the hint's type allows deleting the table
TypeMatches(h, m) ==
  /\ h.hintType = "PointKeyOnly" => ~m.hasRange
  /\ h.hintType = "RangeKeyOnly" => ~m.hasPoint

\* C16: canDelete is true exactly when the table's largest seq num is below
\* the hint's tombstone smallest seq num, its smallest seq num is at least the
\* hint's file smallest seq num, the hint's tombstone largest seq num and the
\* table's smallest seq num are in one snapshot stripe, the type matches, and
\* the table's user keys lie within [start, end)
C16_CanDeleteIff ==
  (fn.op = "canDelete" /\ fn.done) =>
     (fn.out.canDelete <=>
        /\ fn.m.largestSeq < fn.h.tombstoneSmallestSeqNum
        /\ fn.m.smallestSeq >= fn.h.fileSmallestSeqNum
        /\ SameStripe(fn.snapshots, fn.h.tombstoneLargestSeqNum, fn.m.smallestSeq)
        /\ TypeMatches(fn.h, fn.m)
        /\ fn.h.start <= fn.m.smallest /\ fn.m.largest < fn.h.end)

\* a table with point and range keys, above the only snapshot, that a hint of
\* both kinds can delete
C16_Witness ==
  /\ fn.op = "canDelete" /\ fn.done /\ fn.out.canDelete
  /\ fn.snapshots = <<2>> /\ fn.m.smallestSeq = 3 /\ fn.h.hintType = "PointAndRangeKey"
  /\ fn.m.hasPoint /\ fn.m.hasRange

\* some input table of the finished compaction has a key as recent as the
\* oldest tombstone of h
RecentInput(h) ==
  \E f \in fn.inputs : h.tombstoneSmallestSeqNum <= InitFiles[f].largestSeq
ZeroedAndApplied == fn.err = "nil" /\ fn.allowedZeroSeqNum

StripeOf(snaps, seq) == Cardinality({i \in 1..Len(snaps) : snaps[i] <= seq})
TransformDone == fn.op = "rangeKeyCompactionTransform" /\ fn.done
InStripe(keys, k) ==
  LET In(x) == StripeOf(fn.snapshots, x.seq) = k IN SelectSeq(keys, In)
Stripes == 0..Len(fn.snapshots)
OldestStripe == Min({StripeOf(fn.snapshots, fn.s.Keys[i].seq) : i \in 1..Len(fn.s.Keys)})
ElideAsked == elideRangeKey(FALSE, 0, fn.inuseKeyRanges, fn.s.Start, fn.s.End)
WithoutUnsetAndDelete(keys) ==
  LET IsSet(x) == x.kind = "RangeKeySet" IN SelectSeq(keys, IsSet)

\* C18 as stated: Unset and Delete keys are elided only in the stripe that
\* reaches +infinity and only if elideRangeKey(start, end) is true; in every
\* other stripe, and when elideRangeKey is false, the Unset and Delete keys
\* that survive coalescing are in the output
C18_ElidesInNewestStripe ==
  TransformDone =>
    \A k \in Stripes :
      InStripe(fn.out.Keys, k) =
        IF k = Len(fn.snapshots) /\ ElideAsked
          THEN WithoutUnsetAndDelete(Coalesce(InStripe(fn.s.Keys, k)))
          ELSE Coalesce(InStripe(fn.s.Keys, k))

\* C18: Unset and Delete keys are elided only in the oldest stripe that holds
\* keys of the span (the last one the transform reaches) and only if
\* elideRangeKey(start, end) is true; in every other stripe, and when
\* elideRangeKey is false, the Unset and Delete keys that survive coalescing
\* are in the output
C18_ElidesInOldestStripe ==
  TransformDone =>
    \A k \in Stripes :
      InStripe(fn.out.Keys, k) =
        IF fn.s.Keys # <<>> /\ k = OldestStripe /\ ElideAsked
          THEN WithoutUnsetAndDelete(Coalesce(InStripe(fn.s.Keys, k)))
          ELSE Coalesce(InStripe(fn.s.Keys, k))

\* a delete above the snapshot is kept, the unset below it is elided
C18_Witness ==
  /\ TransformDone /\ fn.snapshots = <<3>> /\ ElideAsked
  /\ fn.s.Keys = << [seq |-> 4, kind |-> "RangeKeyDelete", suffix |-> NoSuffix],
                    [seq |-> 2, kind |-> "RangeKeyUnset", suffix |-> 3],
                    [seq |-> 1, kind |-> "RangeKeySet", suffix |-> 4] >>
  /\ fn.out.Keys = << [seq |-> 4, kind |-> "RangeKeyDelete", suffix |-> NoSuffix],
                      [seq |-> 1, kind |-> "RangeKeySet", suffix |-> 4] >>

\* the key x of the span is shadowed within its stripe: a RangeKeyDelete of
\* the stripe has a higher trailer, or x is a Set or Unset and a Set or Unset
\* of the stripe at the suffix of x has a higher trailer
ShadowedInStripe(x) ==
  \E i \in 1..Len(fn.s.Keys) :
    LET y == fn.s.Keys[i]
    IN /\ StripeOf(fn.snapshots, y.seq) = StripeOf(fn.snapshots, x.seq)
       /\ Trailer(y) > Trailer(x)
       /\ \/ y.kind = "RangeKeyDelete"
          \/ x.kind # "RangeKeyDelete" /\ y.suffix = x.suffix
ElidedInLastStripe(x) ==
  /\ ElideAsked /\ x.kind \in {"RangeKeyUnset", "RangeKeyDelete"}
  /\ StripeOf(fn.snapshots, x.seq) = OldestStripe

\* C19: every stripe is coalesced on its own: a key of the span is dropped by
\* coalescing exactly when a key of its own stripe shadows it (a higher Set
\* or Unset at its suffix, or a higher Delete), so that each stripe of the
\* output has at most one key per suffix, and no key of another stripe
\* shadows or removes it
C19_CoalescedPerStripe ==
  TransformDone =>
    /\ \A i \in 1..Len(fn.s.Keys) :
         LET x == fn.s.Keys[i]
         IN (\E o \in 1..Len(fn.out.Keys) : fn.out.Keys[o] = x)
              <=> (~ShadowedInStripe(x) /\ ~ElidedInLastStripe(x))
    /\ \A o, q \in 1..Len(fn.out.Keys) :
         LET x == fn.out.Keys[o]
             y == fn.out.Keys[q]
         IN ~(/\ o # q /\ x.suffix = y.suffix
              /\ StripeOf(fn.snapshots, x.seq) = StripeOf(fn.snapshots, y.seq))

\* a Set above the snapshot does not shadow the Set at its suffix below the
\* snapshot, which shadows the older Set of its own stripe
C19_Witness ==
  /\ TransformDone /\ fn.snapshots = <<3>>
  /\ fn.s.Keys = << [seq |-> 4, kind |-> "RangeKeySet", suffix |-> 3],
                    [seq |-> 2, kind |-> "RangeKeySet", suffix |-> 3],
                    [seq |-> 1, kind |-> "RangeKeySet", suffix |-> 3] >>
  /\ fn.out.Keys = << [seq |-> 4, kind |-> "RangeKeySet", suffix |-> 3],
                      [seq |-> 2, kind |-> "RangeKeySet", suffix |-> 3] >>

\* the output span has the bounds of the input span and only keys of it
KeepsSpanAndKeys ==
  /\ fn.out.Start = fn.s.Start /\ fn.out.End = fn.s.End
  /\ \A o \in 1..Len(fn.out.Keys) : \E i \in 1..Len(fn.s.Keys) : fn.out.Keys[o] = fn.s.Keys[i]

\* C20 as stated: the keys of the output span are sorted by stripe ascending
\* (the stripe below every snapshot first), then by seq num descending; the
\* span keeps its start and end and every output key is an input key
C20_SortedStripeAscending ==
  TransformDone =>
    /\ KeepsSpanAndKeys
    /\ \A o, q \in 1..Len(fn.out.Keys) :
         o < q =>
           LET x == fn.out.Keys[o]
               y == fn.out.Keys[q]
           IN \/ StripeOf(fn.snapshots, x.seq) < StripeOf(fn.snapshots, y.seq)
              \/ /\ StripeOf(fn.snapshots, x.seq) = StripeOf(fn.snapshots, y.seq)
                 /\ x.seq >= y.seq

\* C20: the keys of the output span are sorted by stripe descending (the
\* newest stripe first), then by seq num descending; the span keeps its
\* start and end and every output key is an input key
C20_SortedStripeDescending ==
  TransformDone =>
    /\ KeepsSpanAndKeys
    /\ \A o, q \in 1..Len(fn.out.Keys) :
         o < q =>
           LET x == fn.out.Keys[o]
               y == fn.out.Keys[q]
           IN \/ StripeOf(fn.snapshots, x.seq) > StripeOf(fn.snapshots, y.seq)
              \/ /\ StripeOf(fn.snapshots, x.seq) = StripeOf(fn.snapshots, y.seq)
                 /\ x.seq >= y.seq

\* three stripes, each with one key in the output, the newest first
C20_Witness ==
  /\ TransformDone /\ fn.snapshots = <<2, 4>> /\ Len(fn.out.Keys) = 3
  /\ fn.out.Keys[1].seq = 4 /\ fn.out.Keys[2].seq = 3 /\ fn.out.Keys[3].seq = 1

\* key lies in some in-use key range of the compaction
InSomeRange(ranges, key) ==
  \E i \in 1..Len(ranges) : ranges[i].Start <= key /\ key <= ranges[i].End

\* C21: for a compaction whose tombstones come by ascending user key, every
\* call of elideTombstone returns true exactly when the key lies outside
\* every in-use key range, as a scan of all the ranges would, and the cursor
\* elideTombstoneIndex never moves backwards
C21_CursorEqualsScan ==
  fn.op = "elideTombstone" =>
    /\ \A i \in 1..Len(fn.results) :
         fn.results[i] <=> ~InSomeRange(fn.inuseKeyRanges, fn.keys[i])
    /\ \A i \in 1..Len(fn.indexes) :
         fn.indexes[i] >= (IF i = 1 THEN 0 ELSE fn.indexes[i - 1])

\* the cursor has passed two ranges; the third tombstone lies in the last
\* range and the second between two ranges
C21_Witness ==
  /\ fn.op = "elideTombstone" /\ fn.done /\ Len(fn.inuseKeyRanges) = 3
  /\ fn.keys = <<2, 3, MaxKey>> /\ fn.results = <<FALSE, TRUE, FALSE>>
  /\ fn.indexes = <<0, 1, 2>>

\* a call of elideRangeTombstone(start, end) with start < end by a compaction
\* that is not a flush and elides spans
RangeTombstoneAsked ==
  /\ fn.op = "elide" /\ fn.done /\ fn.flushingLen = 0 /\ ~fn.disableSpanElision
  /\ fn.start < fn.end

\* C22 as stated: elideRangeTombstone(start, end) is true exactly when no
\* in-use key range intersects [start, end), the end being exclusive, so
\* that a range beginning at end does not prevent elision
C22_ElidesUnlessEndExclusiveOverlap ==
  RangeTombstoneAsked =>
    (fn.out.elideRangeTombstone <=>
       ~\E i \in 1..Len(fn.inuseKeyRanges) :
           /\ fn.inuseKeyRanges[i].End >= fn.start
           /\ fn.inuseKeyRanges[i].Start < fn.end)

\* C22: elideRangeTombstone(start, end) is true exactly when no in-use key
\* range intersects [start, end], the end being taken as inclusive, so that
\* a range beginning at end prevents elision
C22_ElidesUnlessEndInclusiveOverlap ==
  RangeTombstoneAsked =>
    (fn.out.elideRangeTombstone <=>
       ~\E i \in 1..Len(fn.inuseKeyRanges) :
           /\ fn.inuseKeyRanges[i].End >= fn.start
           /\ fn.inuseKeyRanges[i].Start <= fn.end)

\* the tombstone [4, 5) is kept because of the in-use range [5, 5]
C22_Witness ==
  /\ RangeTombstoneAsked /\ fn.start = 4 /\ fn.end = 5
  /\ fn.inuseKeyRanges = <<[Start |-> 2, End |-> 3], [Start |-> 5, End |-> 5]>>
  /\ ~fn.out.elideRangeTombstone

\* ---------------------------------------------------------------- C23
RunDone == fn.op = "runCompaction" /\ fn.done
Succeeded == RunDone /\ fn.err = "nil"
\* the user keys an output holds: from its smallest to its largest, the
\* largest itself unless it is an exclusive sentinel
HoldsUserKey(o, u) ==
  /\ o.smallest <= u
  /\ u < o.largest \/ (u = o.largest /\ ~o.largestExclusive)

\* C23: in the version edit of a successful flush or compaction, the largest
\* user key of an output is below the smallest user key of the next output
\* unless that largest key is an exclusive sentinel, and no user key is held
\* by two outputs, whatever the splitters decided; when two outputs would
\* split a user key the runner returns an error.
C23_OutputsSplitNoUserKey ==
  Succeeded =>
    /\ \A i \in 1..Len(fn.newFiles) - 1 :
         \/ fn.newFiles[i].largest < fn.newFiles[i + 1].smallest
         \/ fn.newFiles[i].largestExclusive
    /\ \A i, j \in 1..Len(fn.newFiles) : \A u \in 1..MaxUserKey + 1 :
         i # j => ~(HoldsUserKey(fn.newFiles[i], u) /\ HoldsUserKey(fn.newFiles[j], u))

\* a compaction of two versions of user key 2 and of one tombstone, split by
\* the grandparent or flush split keys into two outputs, and a runner that
\* returned an error for a split between the two versions
C23_Witness ==
  /\ Succeeded /\ Len(fn.newFiles) = 2
  /\ fn.newFiles[1].largestExclusive
  /\ fn.newFiles[1].largest = fn.newFiles[2].smallest
C23_WitnessError ==
  /\ RunDone /\ fn.err = "split user key across two sstables"

\* ---------------------------------------------------------------- C24
\* C24: every output in the version edit of a successful compaction lies
\* within the bounds of the input: c.smallest <= o.smallest <= o.largest
\* <= c.largest.
C24_OutputsWithinInputBounds ==
  Succeeded =>
    \A i \in 1..Len(fn.newFiles) :
      /\ fn.smallest <= fn.newFiles[i].smallest
      /\ fn.newFiles[i].smallest <= fn.newFiles[i].largest
      /\ fn.newFiles[i].largest <= fn.largest

\* a successful compaction of two outputs whose input reaches both bounds
C24_Witness ==
  /\ Succeeded /\ Len(fn.newFiles) = 2
  /\ fn.smallest = 2 /\ fn.largest = MaxUserKey
  /\ fn.newFiles[1].smallest = 2 /\ fn.newFiles[2].largest = MaxUserKey
C24_WitnessError ==
  /\ RunDone /\ fn.err = "output grew beyond bounds of input"

\* ---------------------------------------------------------------- C25
AllRangeDels(outputs) ==
  LET RECURSIVE Cat(_)
      Cat(i) == IF i > Len(outputs) THEN <<>> ELSE outputs[i].rangeDels \o Cat(i + 1)
  IN Cat(1)
InputRangeDels ==
  LET IsDel(x) == x.kind = "RANGEDEL"
      dels == SelectSeq(fn.keys, IsDel)
  IN [i \in 1..Len(dels) |-> [start |-> dels[i].userKey, end |-> dels[i].end]]

\* C25: in a successful compaction, an output finished at split key k holds
\* only range deletion fragments that end at or below k, so its largest range
\* deletion key never exceeds k; no later output holds a fragment that begins
\* below k, so a tombstone [a,k) is whole in the output finished at k; and
\* the fragments written, in order, abut and make up the tombstone.
C25_FragmentsBelowSplitKey ==
  Succeeded =>
    /\ \A i \in 1..Len(fn.newFiles) : \A d \in 1..Len(fn.newFiles[i].rangeDels) :
         fn.newFiles[i].splitKey # NilKey =>
           /\ fn.newFiles[i].rangeDels[d].start < fn.newFiles[i].splitKey
           /\ fn.newFiles[i].rangeDels[d].end <= fn.newFiles[i].splitKey
    /\ \A i, j \in 1..Len(fn.newFiles) : \A d \in 1..Len(fn.newFiles[j].rangeDels) :
         i < j => fn.newFiles[j].rangeDels[d].start >= fn.newFiles[i].splitKey
    /\ LET frags == AllRangeDels(fn.newFiles)
       IN (InputRangeDels # <<>>) =>
            /\ frags # <<>>
            /\ frags[1].start = InputRangeDels[1].start
            /\ frags[Len(frags)].end = InputRangeDels[1].end
            /\ \A d \in 1..Len(frags) - 1 : frags[d].end = frags[d + 1].start

\* the tombstone [2,4) written whole into the output finished at split key 4,
\* the next output beginning with the point key 4
C25_Witness ==
  /\ Succeeded /\ Len(fn.newFiles) = 2
  /\ fn.newFiles[1].splitKey = 4
  /\ fn.newFiles[1].rangeDels = <<[start |-> 2, end |-> 4]>>
  /\ fn.newFiles[2].rangeDels = <<>>
  /\ fn.newFiles[2].smallest = 4
C25_WitnessError ==
  /\ RunDone /\ fn.err = "rangedel beyond split key"

\* ---------------------------------------------------------------- C26
CkReturned == fn.op = "Checkpoint" /\ fn.pc = "returned"

\* C26: when Checkpoint has returned an error after it began creating the
\* destination directory and every link-or-copy goroutine has finished, the
\* destination directory does not exist.
C26_DirectoryGoneAfterError ==
  (CkReturned /\ fn.began /\ fn.result # "nil" /\ fn.tasks = {}) => ~fn.dest.exists

\* the directory is gone after every error but that of objProvider.Lookup,
\* the one return that does not wait for the goroutines
C26_DirectoryGoneUnlessLookupFailed ==
  (CkReturned /\ fn.began /\ fn.result \notin {"nil", "lookup"} /\ fn.tasks = {})
    => ~fn.dest.exists
\* Lookup failed with a goroutine running, which linked its table while
\* RemoveAll was at work
C26_DirectoryLeftBehind ==
  /\ CkReturned /\ fn.result = "lookup" /\ fn.tasks = {}
  /\ fn.dest.exists /\ fn.dest.tables # {}

\* ---------------------------------------------------------------- C27
CkCaptured == fn.op = "Checkpoint" /\ fn.pc \notin {"stat", "capture"}

\* C27: the version, the manifest size and the virtual backings Checkpoint
\* captured belong together: the records of the manifest up to the captured
\* size describe exactly the captured version and its virtual backings,
\* whatever version edits are applied meanwhile.
C27_CapturedPrefixIsCapturedVersion ==
  CkCaptured =>
    Replay(SubSeq(fn.manifest, 1, fn.captured.manifestSize))
      = [version |-> fn.captured.version,
         virtualBackings |-> fn.captured.virtualBackings]

\* Checkpoint captured the version after one version edit, and the next
\* version edit is in the manifest but not installed while the tables are
\* linked
C27_Witness ==
  /\ CkCaptured /\ fn.pc = "tables"
  /\ fn.captured.manifestSize = 2 /\ Len(fn.manifest) = 3
  /\ fn.applier = "written"

\* ---------------------------------------------------------------- C28
ManifestWritten == fn.op = "Checkpoint" /\ fn.destManifest.records # <<>>
\* the tables of the captured version that overlap none of the spans
ExcludedByConstraint ==
  {f \in fn.captured.version :
     /\ fn.restrictToSpans # <<>>
     /\ \A i \in 1..Len(fn.restrictToSpans) :
          \/ CkFiles[f].largest < fn.restrictToSpans[i].start
          \/ CkFiles[f].smallest >= fn.restrictToSpans[i].end}
IncludedVirtual ==
  {f \in fn.captured.version \ ExcludedByConstraint : CkFiles[f].virtual}
UnusedBackings ==
  fn.captured.virtualBackings \ {CkFiles[f].backing : f \in IncludedVirtual}

\* C28: the manifest of the checkpoint is the records of the source manifest
\* up to the captured size, followed by one version edit that deletes exactly
\* the tables overlapping none of the spans of a non-empty restrictToSpans
\* and removes the virtual backings no included table references.
C28_TruncatedManifestAndOneEdit ==
  ManifestWritten =>
    /\ fn.destManifest.records = SubSeq(fn.manifest, 1, fn.captured.manifestSize)
    /\ fn.destManifest.synthetic = <<CkEdit(ExcludedByConstraint, {}, {}, UnusedBackings)>>

\* what the code writes: the version edit is there only when a table is excluded
C28_EditOnlyWhenExcluded ==
  ManifestWritten =>
    /\ fn.destManifest.records = SubSeq(fn.manifest, 1, fn.captured.manifestSize)
    /\ fn.destManifest.synthetic =
         IF ExcludedByConstraint = {} THEN <<>>
         ELSE <<CkEdit(ExcludedByConstraint, {}, {}, UnusedBackings)>>
C28_UnusedBackingKept ==
  /\ ManifestWritten /\ UnusedBackings # {} /\ fn.destManifest.synthetic = <<>>

\* ---------------------------------------------------------------- C29
TablesDone ==
  /\ fn.op = "Checkpoint"
  /\ fn.pc \in {"manifest", "wal"} \/ (fn.pc \in {"return", "returned"} /\ fn.ckErr = "nil" /\ fn.began)
Occurrences(s, x) == Cardinality({i \in 1..Len(s) : s[i] = x})

\* C29: once the tables of a checkpoint are linked, the backing of every
\* included virtual table is outside RemovedBackingTables, a backing is in
\* RemovedBackingTables only if no included virtual table references it, and
\* a local backing of included virtual tables was linked or copied once, a
\* remote one never.
C29_IncludedVirtualKeepsBacking ==
  /\ fn.op = "Checkpoint" =>
       \A b \in 1..9 : Occurrences(fn.started, b) <= 1
  /\ TablesDone =>
       /\ \A f \in IncludedVirtual :
            /\ CkFiles[f].backing \notin fn.removeBackingTables
            /\ \A i \in 1..Len(fn.destManifest.synthetic) :
                 CkFiles[f].backing \notin fn.destManifest.synthetic[i].removedBackings
            /\ Occurrences(fn.started, CkFiles[f].backing)
                 = IF CkFiles[f].backing \in fn.remote THEN 0 ELSE 1
       /\ \A b \in fn.removeBackingTables :
            \A f \in IncludedVirtual : CkFiles[f].backing # b

\* tables 2 and 3, both included, share backing 7: it is linked once and
\* kept, while the backing of the excluded table 4 is removed
C29_Witness ==
  /\ TablesDone /\ fn.pc = "wal"
  /\ {2, 3} \subseteq IncludedVirtual
  /\ Occurrences(fn.started, 7) = 1
  /\ 8 \in fn.removeBackingTables /\ 7 \notin fn.removeBackingTables

\* ---------------------------------------------------------------- C30
IngestedInQueue == {queue[i].file : i \in {k \in 1..Len(queue) : queue[k].kind = "ingest"}}

C30_WitnessFound ==
  /\ ~readOnly /\ budget.scan = 0 /\ obsoleteTables # <<>>
  /\ Range(obsoleteTables) \cap liveFileNums(version, queue) = {}

\* ---------------------------------------------------------------- C31
LogLockWaits == {"s_logwait", "c_applywait", "c_clearwait", "f_lockwait", "f_clearwait"}

FileDeletionStep(name) == fn.op = "FileDeletions" /\ fn'.last = name
PendingObsolete(d) == d.obsoleteTables \cup d.logs

\* C32: while disableFileDeletions > 0 deleteObsoleteFiles enqueues no job
\* and leaves the obsolete lists as they are; enableFileDeletions with the
\* counter above 1 only decrements it; the call that brings the counter to 0
\* enqueues the deferred job with every pending file; no job is enqueued by
\* any call that leaves the counter positive; enableFileDeletions with the
\* counter at 0 panics.
C32_DeletionsDeferredUntilLastEnable ==
  [][/\ (FileDeletionStep("deleteObsoleteFiles") /\ fn.d.disableFileDeletions > 0)
          => fn'.d = fn.d
     /\ (FileDeletionStep("enableFileDeletions") /\ fn.d.disableFileDeletions > 1)
          => fn'.d = [fn.d EXCEPT !.disableFileDeletions = @ - 1]
     /\ (FileDeletionStep("enableFileDeletions") /\ fn.d.disableFileDeletions = 1)
          => /\ fn'.d.disableFileDeletions = 0 /\ ~fn'.d.panicked
             /\ PendingObsolete(fn'.d) = {}
             /\ PendingObsolete(fn.d) # {}
                  => fn'.d.jobs = Append(fn.d.jobs, [tables |-> fn.d.obsoleteTables,
                                                     logs |-> fn.d.logs])
     /\ (FileDeletionStep("enableFileDeletions") /\ fn.d.disableFileDeletions = 0)
          => fn'.d.panicked /\ fn'.d.jobs = fn.d.jobs
     /\ (fn.op = "FileDeletions" /\ fn'.d.jobs # fn.d.jobs)
          => fn'.d.disableFileDeletions = 0]_vars

\* the last holder has called enableFileDeletions and the files that became
\* obsolete while deletions were disabled are in one cleanup job
C32_Witness ==
  /\ fn.op = "FileDeletions" /\ fn.last = "enableFileDeletions" /\ fn.calls = 5
  /\ fn.d.disableFileDeletions = 0 /\ PendingObsolete(fn.d) = {}
  /\ fn.d.jobs = <<[tables |-> {1, 2}, logs |-> {1}]>>

\* enableFileDeletions without a holder
C32_WitnessPanic ==
  fn.op = "FileDeletions" /\ fn.d.panicked /\ fn.d.disableFileDeletions = 0

\* ---------------------------------------------------------------- C33
\* Checkpoint has disabled file deletions and has not re-enabled them
CkDeletionsDisabled ==
  Ck /\ fn.pc \in {"capture", "mkdir", "tables", "wait", "manifest", "wal",
                   "return", "removeAll", "enable"}
\* Checkpoint has captured the version and has not re-enabled file deletions
CkCopying == CkDeletionsDisabled /\ fn.pc # "capture"
CapturedBackings == Backings(fn.captured.version, fn.captured.virtualBackings)

C33_WitnessError ==
  /\ Ck /\ fn.pc = "returned" /\ fn.result \notin {"nil", "exists"}
  /\ fn.d.disableFileDeletions = 1 /\ fn.d.obsoleteTables # {}

\* ---------------------------------------------------------------- C38
\* C38: Checkpoint into an existing destination returns the already-exists
\* error from the Stat and nothing else: the step leaves the destination and
\* the deletion-disable counter as they were, and whenever the result is that
\* error the destination holds what it held before the call, nothing of the
\* checkpoint has begun, and the counter is that of the other holders.
C38_ExistingDestinationUntouched ==
  /\ []((Ck /\ ((fn.pc = "stat" /\ fn.dest.exists) \/ fn.result = "exists"))
          => /\ fn.dest = ExistingDest(TRUE)
             /\ fn.pc \in {"stat", "returned"}
             /\ ~fn.began /\ fn.tasks = {} /\ fn.captured.manifestSize = 0
             /\ fn.d.disableFileDeletions = fn.others /\ ~fn.d.panicked)
  /\ [][(Ck /\ fn.pc = "stat" /\ fn.dest.exists /\ fn'.pc # "stat")
          => /\ fn'.pc = "returned" /\ fn'.result = "exists"
             /\ fn'.dest = fn.dest /\ fn'.d = fn.d]_vars

\* the call has returned the error while another holder keeps deletions
\* disabled and a table became obsolete
C38_Witness ==
  /\ Ck /\ fn.pc = "returned" /\ fn.result = "exists"
  /\ fn.dest = ExistingDest(TRUE)
  /\ fn.d.disableFileDeletions = 1 /\ fn.d.obsoleteTables # {}

\* ---------------------------------------------------------------- C34
Running(j) == comp[j].pc = "c_io"

\* C34 as stated: once the cancel flag of a compaction is set, its runner
\* creates no further output file.
C34_NoOutputOnceCancelled ==
  [][\A j \in JobIds :
       (Running(j) /\ comp[j].cancel) => comp'[j].created \subseteq comp[j].created]_vars

\* C34: the test of newOutput never passes with the cancel flag set; with the
\* flag set the runner creates a file only to complete a newOutput call whose
\* test had passed before; a runner that returns ErrCancelledCompaction has
\* no writer and no pending output left, every file it had created is
\* removed from storage, and the error is that of the compaction.
C34_CancelStopsLaterOutputs ==
  [][\A j \in JobIds :
       /\ (Running(j) /\ ~comp[j].checked /\ comp'[j].checked) => ~comp[j].cancel
       /\ (Running(j) /\ comp[j].cancel /\ comp'[j].created # comp[j].created)
            => comp[j].checked
       /\ (Running(j) /\ comp[j].cancel /\ ~comp[j].checked /\ comp[j].tw = NoFileNum
             /\ Running(j)' /\ comp'[j] # comp[j])
            => FALSE
       /\ (Running(j) /\ comp'[j].runErr = "ErrCancelledCompaction")
            => /\ comp[j].cancel /\ ~Running(j)'
               /\ comp'[j].err = "ErrCancelledCompaction"
               /\ comp'[j].tw = NoFileNum /\ comp'[j].pending = {}
               /\ objects' \cap comp[j].created = {}]_vars

\* newOutput has returned ErrCancelledCompaction to a runner that had created
\* an output, and the file is gone from storage
C34_Witness ==
  \E j \in JobIds :
    /\ comp[j].pc = "c_post" /\ comp[j].runErr = "ErrCancelledCompaction"
    /\ comp[j].created # {} /\ comp[j].created \cap objects = {}

\* the flag was set between the test of newOutput and the allocation
C34_WitnessRace ==
  \E j \in JobIds : Running(j) /\ comp[j].cancel /\ comp[j].checked


\* ---------------------------------------------------------------- C35
\* the step of the pass in which a compaction of this class is launched
ClassPc(c) ==
  IF c.isDownload THEN "s_downloads"
  ELSE IF c.kind = "DeleteOnly" THEN "s_delonly"
  ELSE IF c.manual # 0 THEN "s_manual"
  ELSE "s_auto"
\* the step of a pass that follows a step, once its loop is over
PassOrder(pc) ==
  CASE pc = "s_delonly" -> {"s_manual"}
    [] pc = "s_manual" -> {"s_auto"}
    [] pc = "s_auto" -> {"s_downloads"}
    [] pc = "s_downloads" -> {"none"}
    [] OTHER -> {}
Launched(k) == comp[k].pc = "none" /\ comp'[k].pc = "c_start"

\* C35: a pass that holds the manifest lock starts with the delete-only
\* compactions when a compaction slot is free and with the downloads when
\* none is, and moves on in the order delete-only, manual, automatic,
\* downloads without going back; every compaction is launched in the step of
\* its class; a manual compaction launched is the head of the queue and
\* leaves it; a compaction launched with compactingCount at its maximum is a
\* download.
C35_PassOrder ==
  [][\A j \in JobIds :
       /\ (comp[j].pc = "s_locked" /\ comp'[j].pc \notin {"s_locked", "none"})
            => comp'[j].pc = IF compactingCount < maxCompactions
                               THEN "s_delonly" ELSE "s_downloads"
       /\ (comp[j].pc \in {"s_delonly", "s_manual", "s_auto", "s_downloads"}
             /\ comp'[j].pc # comp[j].pc)
            => comp'[j].pc \in PassOrder(comp[j].pc)
       /\ Launched(j)
            => /\ \E s \in JobIds : mu = s /\ logHolder = s /\ comp[s].pc = ClassPc(comp'[j])
               /\ compactingCount >= maxCompactions => comp'[j].isDownload
               /\ comp'[j].isDownload => downloadingCount < maxDownloads
               /\ comp'[j].manual # 0
                    => /\ Len(manual) > 0 /\ manual[1].id = comp'[j].manual
                       /\ manual' = Tail(manual)]_vars

\* in one pass a compaction took the last compaction slot and a download
\* was launched after it
C35_Witness ==
  \E s, k, w \in JobIds :
    /\ mu = s /\ comp[s].pc = "s_downloads"
    /\ compactingCount = maxCompactions
    /\ comp[k].pc = "c_start" /\ ~comp[k].isDownload
    /\ comp[w].pc = "c_start" /\ comp[w].isDownload

\* ---------------------------------------------------------------- C36
QueueLogNums(q) == {q[i].logNum : i \in 1..Len(q)}
FlushEnding(j) == comp[j].pc = "f_clear" /\ comp'[j].pc = "f_tail0"

\* C36: an entry leaves the memtable queue only at the end of a flush1 whose
\* error is nil and whose version edit is installed, and what leaves is the
\* flushed prefix; a flush1 that ends with an error leaves the queue as it is
\* and has no memtable to mark; a flushed channel is closed only for the
\* memtables such a successful flush took from the queue, after that step;
\* no memtable of the queue has its flushed channel closed.
C36_QueueKeptUnlessFlushApplied ==
  /\ [](QueueLogNums(queue) \cap flushedLogNums = {})
  /\ [][/\ ~(QueueLogNums(queue) \subseteq QueueLogNums(queue'))
            => \E j \in JobIds :
                 /\ FlushEnding(j) /\ comp[j].err = "nil" /\ comp[j].n > 0
                 /\ comp[j].newFiles \subseteq version
                 /\ minUnflushedLogNum >= comp[j].minUnflushedLogNum
                 /\ queue' = SubSeq(queue, comp[j].n + 1, Len(queue))
                 /\ comp'[j].flushed = {queue[i].logNum : i \in 1..comp[j].n}
        /\ \A j \in JobIds :
             (FlushEnding(j) /\ comp[j].err # "nil")
               => queue' = queue /\ comp'[j].flushed = {}
        /\ flushedLogNums' # flushedLogNums
            => \E j \in JobIds :
                 /\ comp[j].pc \in {"f_tail0", "f_tail"} /\ comp[j].err = "nil"
                 /\ flushedLogNums' = flushedLogNums \cup comp[j].flushed
                 /\ queue' = queue]_vars

\* a flush1 has failed after its outputs were written: the memtables are
\* still the head of the queue, none is marked flushed
C36_Witness ==
  \E j \in JobIds :
    /\ comp[j].pc = "f_tail0" /\ comp[j].err # "nil" /\ comp[j].n > 0
    /\ comp[j].created # {} /\ comp[j].flushed = {}
    /\ Len(queue) > comp[j].n
    /\ QueueLogNums(queue) \cap flushedLogNums = {}

\* a flush1 has succeeded and closed the channels of the memtables it took
C36_WitnessSuccess ==
  \E j \in JobIds : comp[j].pc = "s_start" /\ flushedLogNums # {} /\ Len(queue) > 0

\* ---------------------------------------------------------------- C39
\* the goroutines of compactions the scheduler launched that have not reached
\* the end of compact
Unfinished ==
  {j \in JobIds : /\ comp[j].pc \in {"c_start", "c_io", "c_copy", "c_apply", "c_applywait",
                                      "c_applying", "c_post", "c_clear", "c_clearwait",
                                      "c_tail"}
                  /\ comp[j].kind \notin {"Flush", "IngestedFlushable"}}
UnfinishedCompactions == {j \in Unfinished : ~comp[j].isDownload}
UnfinishedDownloads == {j \in Unfinished : comp[j].isDownload}

\* C39: compactingCount is the number of launched compactions other than
\* downloads that have not finished, downloadingCount that of the downloads,
\* and all of them are in inProgress; a counter goes up by one in the step
\* that launches a compaction and adds it to inProgress, and down by one in
\* the step at the end of compact that removes it from inProgress, after
\* which the goroutine runs maybeScheduleCompaction.
C39_CountIsUnfinishedCompactions ==
  /\ [](~fatal => /\ compactingCount = Cardinality(UnfinishedCompactions)
                  /\ downloadingCount = Cardinality(UnfinishedDownloads)
                  /\ Unfinished \subseteq inProgress)
  /\ [][/\ compactingCount' # compactingCount
            => \E k \in JobIds :
                 \/ /\ Launched(k) /\ ~comp'[k].isDownload
                    /\ compactingCount' = compactingCount + 1
                    /\ k \notin inProgress /\ inProgress' = inProgress \cup {k}
                 \/ /\ comp[k].pc = "c_tail" /\ ~comp[k].isDownload
                    /\ compactingCount' = compactingCount - 1
                    /\ k \in inProgress /\ inProgress' = inProgress \ {k}
                    /\ comp'[k].pc = "s_start" /\ mu' = k
        /\ \A k \in JobIds :
             (Launched(k) \/ (comp[k].pc = "c_tail" /\ comp'[k].pc # "c_tail"))
               => compactingCount' + downloadingCount'
                    # compactingCount + downloadingCount]_vars

\* a compaction and a download are running with both counters at their
\* maximum, and a goroutine is about to run the scheduler again
C39_Witness ==
  \E j, k, s \in JobIds :
    /\ j \in UnfinishedCompactions /\ comp[j].pc = "c_io"
    /\ k \in UnfinishedDownloads
    /\ comp[s].pc = "s_start" /\ mu = s
    /\ compactingCount = maxCompactions /\ downloadingCount = maxDownloads

\* ---------------------------------------------------------------- C40
ManualIds == 1..MaxManual
InManualQueue(m) == \E i \in 1..Len(manual) : manual[i].id = m
CompactionsOf(m) == {j \in JobIds : comp[j].pc # "none" /\ comp[j].manual = m}
\* the values on the done channel of m and the compactions still to send one
Completions(m) == Len(manualDone[m]) + Cardinality(CompactionsOf(m))

\* C40: a manual compaction in the queue has no value on its done channel
\* and no compaction; the step that removes it from the queue either sends
\* nil, when it is a no-op, or launches its compaction; the compaction sends
\* the error of compact1 when it ends, and nothing else is ever sent: the
\* channel of a manual compaction that left the queue holds no value while
\* its compaction runs and exactly one afterwards.
C40_OneCompletionPerManualCompaction ==
  /\ [](\A m \in ManualIds :
          /\ Completions(m) <= 1
          /\ InManualQueue(m) => Completions(m) = 0)
  /\ [][\A m \in ManualIds :
          /\ (InManualQueue(m) /\ ~InManualQueue(m)')
               => /\ manual[1].id = m
                  /\ \/ manualDone'[m] = <<"nil">> /\ CompactionsOf(m)' = {}
                     \/ manualDone'[m] = <<>> /\ \E k \in JobIds : Launched(k) /\ comp'[k].manual = m
          /\ (Completions(m) = 1) => (Completions(m)' = 1 /\ ~InManualQueue(m)')
          /\ (manualDone'[m] # manualDone[m] /\ ~InManualQueue(m))
               => \E k \in CompactionsOf(m) :
                    /\ comp[k].pc = "c_tail" /\ comp'[k].manual = 0
                    /\ manualDone'[m] = <<comp[k].err>>]_vars

\* a manual compaction has left the queue, run and failed on a storage
\* error: its channel holds that one value
C40_Witness ==
  \E m \in ManualIds :
    /\ manualDone[m] = <<"io">> /\ ~InManualQueue(m) /\ CompactionsOf(m) = {}

\* two manual compactions have completed, one of them a no-op
C40_WitnessNoOp ==
  \E m, n \in ManualIds :
    /\ m # n /\ manualDone[m] = <<"nil">> /\ Len(manualDone[n]) = 1
    /\ CompactionsOf(m) \cup CompactionsOf(n) = {} /\ manual = <<>>

\* a cancelled manual compaction has sent ErrCancelledCompaction
C40_WitnessCancelled ==
  \E m \in ManualIds : manualDone[m] = <<"ErrCancelledCompaction">>

\* ---------------------------------------------------------------- C37
RunLoop == fn.op = "runCompaction" /\ ~fn.done
Exhausted == fn.pos > Len(fn.keys)
LoopFirstKey ==
  IF Exhausted THEN FirstTombstoneStart(fn.pending) ELSE fn.keys[fn.pos].userKey
LimitsFrom(start) ==
  {findGrandparentLimit(fn.grandparents, MaxOverlap, start),
   findL0Limit(fn.startLevel, fn.outputLevel, fn.l0Limits, start)}

\* C37: findGrandparentLimit and findL0Limit return nil or a key above the
\* start key; an iteration of the output loop that ends without an error
\* moves the input iterator forward, or, with the iterator exhausted,
\* finishes an output at nil or at a split key above the start of the pending
\* tombstones, which leaves nothing pending or only fragments that start at
\* that split key; the loop that has not ended has a next iteration, which
\* changes its state; and the loop ends: with an error, or with the iterator
\* exhausted and no fragment pending.
C37_OutputLoopTerminates ==
  /\ [](RunLoop => outputLoopIteration(fn) \ {fn} # {})
  /\ [](fn.op = "runCompaction"
          => \A start \in 1..(MaxUserKey + 1) :
               \A l \in LimitsFrom(start) : l = NilKey \/ l > start)
  /\ [][(RunLoop /\ fn' # fn /\ fn'.err = "nil")
          => \/ fn'.pos > fn.pos
             \/ /\ Exhausted /\ fn'.pos = fn.pos
                /\ Len(fn'.newFiles) = Len(fn.newFiles) + 1
                /\ LET splitKey == fn'.newFiles[Len(fn'.newFiles)].splitKey
                   IN /\ splitKey = NilKey \/ splitKey > LoopFirstKey
                      /\ \/ fn'.pending = <<>>
                         \/ /\ splitKey # NilKey
                            /\ FirstTombstoneStart(fn'.pending) = splitKey]_vars
  /\ [](fn.op = "runCompaction"
          => <>(/\ fn.op = "runCompaction" /\ fn.done
                /\ fn.err = "nil" => (Exhausted /\ fn.pending = <<>>)))

\* the loop has ended without an error after an iteration that had only
\* the fragments of a range tombstone left to write
C37_Witness ==
  /\ fn.op = "runCompaction" /\ fn.done /\ fn.err = "nil"
  /\ Len(fn.newFiles) >= 3
  /\ fn.newFiles[Len(fn.newFiles)].points = <<>>
  /\ fn.newFiles[Len(fn.newFiles) - 1].points = <<>>

====
